---- MODULE Spec2Model ----
(***************************************************************************)
(* Model of the biometrics score-log ingestor (src/src/ingestor).          *)
(*                                                                         *)
(* The pipeline of collect_cli.main is modelled as a state machine:        *)
(* collect_from_servers, then process_all_logs, then                       *)
(* persist_all_jsonl_files, each stage stepping through its loop.  Every   *)
(* external operation (SSH connect, file read/write/move, the SQLite       *)
(* ledger, the PostgreSQL session) either succeeds or raises, and the      *)
(* process may be killed between any two steps.                            *)
(***************************************************************************)
EXTENDS Integers, Sequences, FiniteSets, TLC

\* An Optional value: None, or Some(x).
None == <<>>
Some(x) == <<x>>

(***************************************************************************)
(* Bounds of the model.                                                    *)
(***************************************************************************)
\* Number of runs of main in one behaviour.
MaxRuns == 2
\* Number of times the environment puts a log file into the input root.
MaxDeliveries == 2
\* Number of failures in one behaviour: an operation that raises, or a kill.
MaxFaults == 2

(***************************************************************************)
(* parser.py : log lines.  A line is the sequence of its whitespace-       *)
(* separated tokens; a token is "key=value" (Tok) or a word without "="    *)
(* (Word).  Values are strings; int(value) is defined on the numerals only.*)
(***************************************************************************)
Tok(k, v) == [eq |-> TRUE, key |-> k, value |-> v]
Word(w) == [eq |-> FALSE, key |-> w, value |-> ""]

\* int(value): the numerals the model uses and their values.
IntValue == [v \in {"0", "1", "2", "9", "84", "200", "-5", "-7"} |->
               CASE v = "0" -> 0 [] v = "1" -> 1 [] v = "2" -> 2 [] v = "9" -> 9
                 [] v = "84" -> 84 [] v = "200" -> 200 [] v = "-5" -> 0 - 5
                 [] v = "-7" -> 0 - 7]

\* A variant of the pattern without the except clause's default: the text
\* that int() rejected gets through.
int_or_keeps_text(value, default) ==
    IF value \in DOMAIN IntValue THEN Some(IntValue[value]) ELSE Some(value)

\* The try: int(value) / except ValueError pattern: the integer, or the default.
int_or(value, default) ==
    IF value \in DOMAIN IntValue THEN Some(IntValue[value]) ELSE default

finger_keys == [k \in {"RightThumb", "RightIndex", "RightMiddle", "RightRing",
                      "RightLittle", "LeftThumb", "LeftIndex", "LeftMiddle",
                      "LeftRing", "LeftLittle"} |->
                 CASE k = "RightThumb" -> "right_thumb"
                   [] k = "RightIndex" -> "right_index"
                   [] k = "RightMiddle" -> "right_middle"
                   [] k = "RightRing" -> "right_ring"
                   [] k = "RightLittle" -> "right_little"
                   [] k = "LeftThumb" -> "left_thumb"
                   [] k = "LeftIndex" -> "left_index"
                   [] k = "LeftMiddle" -> "left_middle"
                   [] k = "LeftRing" -> "left_ring"
                   [] k = "LeftLittle" -> "left_little"]

\* Variants of the handled set: without the finger names, without nbpk.
handled_keys_without_fingers ==
    {"RqType", "ReId", "FaceSampleId", "SampleType", "Face", "IrisSampleId", "LeftEye",
     "RightEye", "FingerprintSampleId", "nbpk"}
handled_keys_without_nbpk ==
    {"RqType", "ReId", "FaceSampleId", "SampleType", "Face", "IrisSampleId", "LeftEye",
     "RightEye", "FingerprintSampleId"} \cup DOMAIN finger_keys

handled_keys == {"RqType", "ReId", "FaceSampleId", "SampleType", "Face",
                 "IrisSampleId", "LeftEye", "RightEye", "FingerprintSampleId",
                 "nbpk"} \cup DOMAIN finger_keys

\* d[k] = v on a dict modelled as a function with a finite domain.
DictSet(d, k, v) == [x \in DOMAIN d \cup {k} |-> IF x = k THEN v ELSE d[x]]
EmptyDict == [x \in {} |-> None]

\* The local variables of parse_line before the loop.
ParseInit == [i |-> 1, rq_type |-> "", primary_re_id |-> None, status_code |-> None,
              face_sample_id |-> None, face_sample_type |-> None, face_score |-> None,
              iris_sample_id |-> None, left_eye_score |-> None, right_eye_score |-> None,
              fingerprint_samples |-> <<>>, extra |-> EmptyDict]

\* current_fp is the sample appended last, or None before the first one.
HasCurrentFp(s) == Len(s.fingerprint_samples) > 0
CurrentFp(s) == s.fingerprint_samples[Len(s.fingerprint_samples)]
SetCurrentFp(s, fp) ==
    [s EXCEPT !.fingerprint_samples = [@ EXCEPT ![Len(@)] = fp]]

\* A variant of the finger branch that takes whatever token follows for the
\* minutiae count.
ParseFinger_consumes_any(s, tokens, key, value) ==
    LET hasNext == s.i + 1 <= Len(tokens)
        nbpk_value == IF hasNext THEN int_or(tokens[s.i + 1].value, None) ELSE None
        fp == CurrentFp(s)
        fp2 == [fp EXCEPT !.values = DictSet(@, finger_keys[key],
                                             [score |-> int_or(value, None),
                                              nbpk |-> nbpk_value])]
    IN [SetCurrentFp(s, fp2) EXCEPT !.i = s.i + (IF hasNext THEN 2 ELSE 1)]

\* The finger branch: the score, the one-token lookahead for nbpk, the store.
ParseFinger(s, tokens, key, value) ==
    LET nextIsNbpk == /\ s.i + 1 <= Len(tokens)
                      /\ tokens[s.i + 1].eq
                      /\ tokens[s.i + 1].key = "nbpk"
        nbpk_value == IF nextIsNbpk THEN int_or(tokens[s.i + 1].value, None) ELSE None
        fp == CurrentFp(s)
        fp2 == [fp EXCEPT !.values = DictSet(@, finger_keys[key],
                                             [score |-> int_or(value, None),
                                              nbpk |-> nbpk_value])]
    IN [SetCurrentFp(s, fp2) EXCEPT !.i = s.i + (IF nextIsNbpk THEN 2 ELSE 1)]

\* A variant of the ReId branch in which the first negative later ReId wins.
ParseReId_first_negative_wins(s, value) ==
    LET next == [s EXCEPT !.i = s.i + 1]
    IN IF s.primary_re_id = None THEN [next EXCEPT !.primary_re_id = Some(value)]
       ELSE IF value \in DOMAIN IntValue /\ IntValue[value] < 0 /\ s.status_code = None
            THEN [next EXCEPT !.status_code = Some(IntValue[value])]
            ELSE next

\* A variant of the ReId branch that leaves the cursor on a later ReId token.
ParseReId_keeps_cursor(s, value) ==
    IF s.primary_re_id = None
    THEN [s EXCEPT !.i = s.i + 1, !.primary_re_id = Some(value)]
    ELSE s

\* The ReId branch: the first is the identity, a later negative one the status.
ParseReId(s, value) ==
    LET next == [s EXCEPT !.i = s.i + 1]
    IN IF s.primary_re_id = None THEN [next EXCEPT !.primary_re_id = Some(value)]
       ELSE IF value \in DOMAIN IntValue /\ IntValue[value] < 0
            THEN [next EXCEPT !.status_code = Some(IntValue[value])]
            ELSE next

\* A variant of the FingerprintSampleId branch that goes on with the current
\* group when the id is the one of that group.
OpenGroup_merges_same_id(s, value) ==
    LET sample_id == IF value \in DOMAIN IntValue THEN IntValue[value] ELSE 0 - 1
    IN IF HasCurrentFp(s) /\ CurrentFp(s).sample_id = sample_id
       THEN [s EXCEPT !.i = s.i + 1]
       ELSE [s EXCEPT !.i = s.i + 1,
                      !.fingerprint_samples =
                          Append(@, [sample_id |-> sample_id, sample_type |-> None,
                                     values |-> EmptyDict])]

\* The FingerprintSampleId branch: a new group, appended and made current.
OpenGroup(s, value) ==
    [s EXCEPT !.i = s.i + 1,
              !.fingerprint_samples =
                  Append(@, [sample_id |-> IF value \in DOMAIN IntValue
                                              THEN IntValue[value] ELSE 0 - 1,
                             sample_type |-> None, values |-> EmptyDict])]

\* A variant of the face condition that does not look at the groups.
FaceScoped_ignores_groups(s) == s.face_sample_type = None

\* current_fp is None and face_sample_type is None.
FaceScoped(s) == ~HasCurrentFp(s) /\ s.face_sample_type = None

\* One iteration of the while loop of parse_line.
ParseStep(s, tokens) ==
    LET token == tokens[s.i]
        key == token.key
        value == token.value
        next == [s EXCEPT !.i = s.i + 1]
    IN IF ~token.eq THEN next
       ELSE IF key = "RqType" THEN [next EXCEPT !.rq_type = value]
       ELSE IF key = "ReId" THEN ParseReId(s, value)
       ELSE IF key = "FaceSampleId"
            THEN [next EXCEPT !.face_sample_id = int_or(value, s.face_sample_id)]
       ELSE IF key = "SampleType" /\ FaceScoped(s)
            THEN [next EXCEPT !.face_sample_type = Some(value)]
       ELSE IF key = "Face"
            THEN [next EXCEPT !.face_score = int_or(value, s.face_score)]
       ELSE IF key = "IrisSampleId"
            THEN [next EXCEPT !.iris_sample_id = int_or(value, s.iris_sample_id)]
       ELSE IF key = "LeftEye"
            THEN [next EXCEPT !.left_eye_score = int_or(value, s.left_eye_score)]
       ELSE IF key = "RightEye"
            THEN [next EXCEPT !.right_eye_score = int_or(value, s.right_eye_score)]
       ELSE IF key = "FingerprintSampleId" THEN OpenGroup(s, value)
       ELSE IF key = "SampleType" /\ HasCurrentFp(s) /\ CurrentFp(s).sample_type = None
            THEN [SetCurrentFp(s, [CurrentFp(s) EXCEPT !.sample_type = Some(value)])
                    EXCEPT !.i = s.i + 1]
       ELSE IF key \in DOMAIN finger_keys /\ HasCurrentFp(s)
            THEN ParseFinger(s, tokens, key, value)
       ELSE IF key \notin handled_keys
            THEN [next EXCEPT !.extra = DictSet(@, key, value)]
       ELSE next

RECURSIVE ParseLoop(_, _)
ParseLoop(s, tokens) ==
    IF s.i <= Len(tokens) THEN ParseLoop(ParseStep(s, tokens), tokens) ELSE s

\* A variant of parse_line that returns the eye scores the other way round.
parse_line_swaps_eyes(line) ==
    LET s == ParseLoop(ParseInit, line)
    IN [rq_type |-> s.rq_type,
        re_id |-> IF s.primary_re_id = None THEN "" ELSE s.primary_re_id[1],
        status_code |-> s.status_code,
        face_sample_id |-> s.face_sample_id,
        face_sample_type |-> s.face_sample_type,
        face_score |-> s.face_score,
        iris_sample_id |-> s.iris_sample_id,
        left_eye_score |-> s.right_eye_score,
        right_eye_score |-> s.left_eye_score,
        raw |-> Some(line),
        extra |-> s.extra,
        fingerprint_samples |-> s.fingerprint_samples]

\* parse_line(line) -> BiometricsRecord.
parse_line(line) ==
    LET s == ParseLoop(ParseInit, line)
    IN [rq_type |-> s.rq_type,
        re_id |-> IF s.primary_re_id = None THEN "" ELSE s.primary_re_id[1],
        status_code |-> s.status_code,
        face_sample_id |-> s.face_sample_id,
        face_sample_type |-> s.face_sample_type,
        face_score |-> s.face_score,
        iris_sample_id |-> s.iris_sample_id,
        left_eye_score |-> s.left_eye_score,
        right_eye_score |-> s.right_eye_score,
        raw |-> Some(line),
        extra |-> s.extra,
        fingerprint_samples |-> s.fingerprint_samples]

RECURSIVE MapParse(_)
MapParse(lines) ==
    IF lines = <<>> THEN <<>>
    ELSE (IF Head(lines) = <<>> THEN <<>> ELSE <<parse_line(Head(lines))>>)
         \o MapParse(Tail(lines))

\* parse_file(path): one record per non-blank line (a blank line is <<>>).
parse_file(lines) == MapParse(lines)

(***************************************************************************)
(* processor.py : the JSON form of a record.  A JSON object is a function  *)
(* from its keys; json.dump followed by json.loads is lossless on the      *)
(* values written here (strings, integers, null, objects, arrays), so a    *)
(* JSONL file is modelled as the sequence of the objects written to it.    *)
(***************************************************************************)
\* dict.get(key, default).
Get(d, k, default) == IF k \in DOMAIN d THEN d[k] ELSE default

RECURSIVE FingerprintsJson(_)
FingerprintsJson(samples) ==
    IF samples = <<>> THEN <<>>
    ELSE <<[sample_id |-> Head(samples).sample_id,
            sample_type |-> Head(samples).sample_type,
            fingers |-> Head(samples).values]>> \o FingerprintsJson(Tail(samples))

\* A variant of _record_to_dict that tests the face fields for truth instead
\* of comparing them with None.
record_to_dict_truthy(record) ==
    IF record.rq_type # "IP"
    THEN [rq_type |-> record.rq_type, re_id |-> record.re_id]
    ELSE LET base == [rq_type |-> record.rq_type, re_id |-> record.re_id,
                      re_code |-> record.status_code, raw_line |-> record.raw]
             withFace ==
                 IF \/ record.face_sample_id \notin {None, Some(0)}
                    \/ record.face_sample_type \notin {None, Some("")}
                    \/ record.face_score \notin {None, Some(0)}
                 THEN DictSet(base, "face", [sample_id |-> record.face_sample_id,
                                             sample_type |-> record.face_sample_type,
                                             score |-> record.face_score])
                 ELSE base
             withIris ==
                 IF \/ record.iris_sample_id # None
                    \/ record.left_eye_score # None
                    \/ record.right_eye_score # None
                 THEN DictSet(withFace, "iris", [sample_id |-> record.iris_sample_id,
                                                 left |-> record.left_eye_score,
                                                 right |-> record.right_eye_score])
                 ELSE withFace
             withFp ==
                 IF record.fingerprint_samples # <<>>
                 THEN DictSet(withIris, "fingerprints",
                              FingerprintsJson(record.fingerprint_samples))
                 ELSE withIris
         IN IF DOMAIN record.extra # {}
            THEN DictSet(withFp, "extra", record.extra)
            ELSE withFp

record_to_dict(record) ==
    IF record.rq_type # "IP"
    THEN [rq_type |-> record.rq_type, re_id |-> record.re_id]
    ELSE LET base == [rq_type |-> record.rq_type, re_id |-> record.re_id,
                      re_code |-> record.status_code, raw_line |-> record.raw]
             withFace ==
                 IF \/ record.face_sample_id # None
                    \/ record.face_sample_type # None
                    \/ record.face_score # None
                 THEN DictSet(base, "face", [sample_id |-> record.face_sample_id,
                                             sample_type |-> record.face_sample_type,
                                             score |-> record.face_score])
                 ELSE base
             withIris ==
                 IF \/ record.iris_sample_id # None
                    \/ record.left_eye_score # None
                    \/ record.right_eye_score # None
                 THEN DictSet(withFace, "iris", [sample_id |-> record.iris_sample_id,
                                                 left |-> record.left_eye_score,
                                                 right |-> record.right_eye_score])
                 ELSE withFace
             withFp ==
                 IF record.fingerprint_samples # <<>>
                 THEN DictSet(withIris, "fingerprints",
                              FingerprintsJson(record.fingerprint_samples))
                 ELSE withIris
         IN IF DOMAIN record.extra # {}
            THEN DictSet(withFp, "extra", record.extra)
            ELSE withFp

RECURSIVE FingerprintsFromJson(_)
FingerprintsFromJson(fps) ==
    IF fps = <<>> THEN <<>>
    ELSE <<[sample_id |-> Get(Head(fps), "sample_id", 0),
            sample_type |-> Get(Head(fps), "sample_type", None),
            values |-> Get(Head(fps), "fingers", EmptyDict)]>>
         \o FingerprintsFromJson(Tail(fps))

dict_to_record(data) ==
    LET face == Get(data, "face", EmptyDict)
        iris == Get(data, "iris", EmptyDict)
    IN [rq_type |-> Get(data, "rq_type", ""),
        re_id |-> Get(data, "re_id", ""),
        status_code |-> Get(data, "re_code", None),
        raw |-> Get(data, "raw_line", None),
        face_sample_id |-> Get(face, "sample_id", None),
        face_sample_type |-> Get(face, "sample_type", None),
        face_score |-> Get(face, "score", None),
        iris_sample_id |-> Get(iris, "sample_id", None),
        left_eye_score |-> Get(iris, "left", None),
        right_eye_score |-> Get(iris, "right", None),
        fingerprint_samples |-> FingerprintsFromJson(Get(data, "fingerprints", <<>>)),
        extra |-> Get(data, "extra", EmptyDict)]

(***************************************************************************)
(* File names.  A name is the sequence of its dot-separated components     *)
(* ("quality.2026-01-26.log" is <<"quality", "2026-01-26", "log">>); a     *)
(* path below a root is [server, name], server being its first segment.    *)
(***************************************************************************)
\* The components the pattern \d{4}-\d{2}-\d{2} matches, and those among them
\* that are calendar dates.
DatePatternTokens == {"2026-01-26", "2026-01-27", "2026-12-31", "2026-13-45"}
DateTokens == {"2026-01-26", "2026-01-27", "2026-12-31"}

\* re.search(r"(\d{4}-\d{2}-\d{2})", filename): the first match, or None.
RECURSIVE search_date(_)
search_date(name) ==
    IF name = <<>> THEN None
    ELSE IF Head(name) \in DatePatternTokens THEN Some(Head(name))
         ELSE search_date(Tail(name))

\* db._extract_date_from_filename: the match when date.fromisoformat accepts it.
extract_date_from_filename(filename) ==
    IF filename = None THEN None
    ELSE LET m == search_date(filename)
         IN IF m # None /\ m[1] \in DateTokens THEN m ELSE None

\* collector._extract_file_date: the match when strptime accepts it.
extract_file_date(filename) ==
    LET m == search_date(filename)
    IN IF m # None /\ m[1] \in DateTokens THEN m ELSE None

\* Path.with_suffix(suffix + ".jsonl"): the last component and "jsonl" after it.
WithJsonlSuffix(name) == Append(name, "jsonl")

\* Path.stem: the name without its last component.
Stem(name) == SubSeq(name, 1, Len(name) - 1)

\* str.replace(".log", ""): every ".log" is dropped from the text.
RECURSIVE DropDotLog(_, _)
DropDotLog(name, first) ==
    IF name = <<>> THEN <<>>
    ELSE (IF ~first /\ Head(name) = "log" THEN <<>> ELSE <<Head(name)>>)
         \o DropDotLog(Tail(name), FALSE)

\* jsonl_path.stem.replace(".log", "") + ".log"
source_file_of(jsonl_name) == Append(DropDotLog(Stem(jsonl_name), TRUE), "log")

\* The JSONL path process_log_file writes for a log path below the input root.
output_path_of(log_path) ==
    [server |-> log_path.server, name |-> WithJsonlSuffix(log_path.name)]

(***************************************************************************)
(* db.py : the fact rows of a record.                                      *)
(***************************************************************************)
FINGER_CHANNEL_MAP ==
    [n \in {"right_thumb", "right_index", "right_middle", "right_ring", "right_little",
            "left_thumb", "left_index", "left_middle", "left_ring", "left_little"} |->
       CASE n = "right_thumb" -> "RIGHT_THUMB"
         [] n = "right_index" -> "RIGHT_INDEX"
         [] n = "right_middle" -> "RIGHT_MIDDLE"
         [] n = "right_ring" -> "RIGHT_RING"
         [] n = "right_little" -> "RIGHT_LITTLE"
         [] n = "left_thumb" -> "LEFT_THUMB"
         [] n = "left_index" -> "LEFT_INDEX"
         [] n = "left_middle" -> "LEFT_MIDDLE"
         [] n = "left_ring" -> "LEFT_RING"
         [] n = "left_little" -> "LEFT_LITTLE"]

\* The order in which the rows of one sample's fingers are listed.
FingerOrder == <<"right_thumb", "right_index", "right_middle", "right_ring",
                 "right_little", "left_thumb", "left_index", "left_middle",
                 "left_ring", "left_little">>

\* A variant of the row that leaves the status code out.
ScoreRow_without_status(record, server_name, source_file, modality, channel, sample_id, sample_type, score, nbpk) ==
    [re_id |-> record.re_id, re_code |-> None, rq_type |-> record.rq_type,
     log_date |-> extract_date_from_filename(source_file),
     server_name |-> server_name, source_file |-> source_file,
     modality |-> modality, channel |-> channel, sample_id |-> sample_id,
     sample_type |-> sample_type, score |-> score, nbpk |-> nbpk,
     raw_line |-> record.raw]

ScoreRow(record, server_name, source_file, modality, channel, sample_id, sample_type, score, nbpk) ==
    [re_id |-> record.re_id, re_code |-> record.status_code, rq_type |-> record.rq_type,
     log_date |-> extract_date_from_filename(source_file),
     server_name |-> server_name, source_file |-> source_file,
     modality |-> modality, channel |-> channel, sample_id |-> sample_id,
     sample_type |-> sample_type, score |-> score, nbpk |-> nbpk,
     raw_line |-> record.raw]

RECURSIVE FingerRows(_, _, _, _, _)
FingerRows(record, server_name, source_file, fp, names) ==
    IF names = <<>> THEN <<>>
    ELSE (IF Head(names) \in DOMAIN fp.values /\ Head(names) \in DOMAIN FINGER_CHANNEL_MAP
          THEN <<ScoreRow(record, server_name, source_file, "FINGER",
                          FINGER_CHANNEL_MAP[Head(names)], Some(fp.sample_id),
                          fp.sample_type,
                          Get(fp.values[Head(names)], "score", None),
                          Get(fp.values[Head(names)], "nbpk", None))>>
          ELSE <<>>)
         \o FingerRows(record, server_name, source_file, fp, Tail(names))

RECURSIVE SampleRows(_, _, _, _)
SampleRows(record, server_name, source_file, samples) ==
    IF samples = <<>> THEN <<>>
    ELSE FingerRows(record, server_name, source_file, Head(samples), FingerOrder)
         \o SampleRows(record, server_name, source_file, Tail(samples))

\* A variant of the expansion that gives the iris rows only when both eyes
\* have a score.
record_to_biometric_scores_pairs_eyes(record, server_name, source_file) ==
    (IF record.face_score # None
     THEN <<ScoreRow(record, server_name, source_file, "FACE", "FACE",
                     record.face_sample_id, record.face_sample_type,
                     record.face_score, None)>>
     ELSE <<>>)
    \o (IF record.left_eye_score # None /\ record.right_eye_score # None
        THEN <<ScoreRow(record, server_name, source_file, "IRIS", "LEFT_EYE",
                        record.iris_sample_id, None, record.left_eye_score, None),
               ScoreRow(record, server_name, source_file, "IRIS", "RIGHT_EYE",
                        record.iris_sample_id, None, record.right_eye_score, None)>>
        ELSE <<>>)
    \o SampleRows(record, server_name, source_file, record.fingerprint_samples)

record_to_biometric_scores(record, server_name, source_file) ==
    (IF record.face_score # None
     THEN <<ScoreRow(record, server_name, source_file, "FACE", "FACE",
                     record.face_sample_id, record.face_sample_type,
                     record.face_score, None)>>
     ELSE <<>>)
    \o (IF record.left_eye_score # None
        THEN <<ScoreRow(record, server_name, source_file, "IRIS", "LEFT_EYE",
                        record.iris_sample_id, None, record.left_eye_score, None)>>
        ELSE <<>>)
    \o (IF record.right_eye_score # None
        THEN <<ScoreRow(record, server_name, source_file, "IRIS", "RIGHT_EYE",
                        record.iris_sample_id, None, record.right_eye_score, None)>>
        ELSE <<>>)
    \o SampleRows(record, server_name, source_file, record.fingerprint_samples)

\* all_scores of persist_records: the rows of the IP records of the batch.
RECURSIVE AllScores(_, _, _)
AllScores(records, server_name, source_file) ==
    IF records = <<>> THEN <<>>
    ELSE (IF Head(records).rq_type # "IP" THEN <<>>
          ELSE record_to_biometric_scores(Head(records), server_name, source_file))
         \o AllScores(Tail(records), server_name, source_file)

(***************************************************************************)
(* state.py : the ledger.  A table is a function from its primary keys.    *)
(***************************************************************************)
\* A variant of is_file_already_processed that looks the filename up alone.
is_file_already_processed_any_server(table, server_name, filename) ==
    \E key \in DOMAIN table : key[2] = filename

is_file_already_processed(table, server_name, filename) ==
    <<server_name, filename>> \in DOMAIN table

\* A variant of mark_file_processed that writes the entry without its hash.
mark_file_processed_no_hash(table, server_name, filename, file_date, hash_sha256, now) ==
    DictSet(table, <<server_name, filename>>,
            [file_date |-> file_date, first_seen_at |-> now, last_processed_at |-> now,
             hash_sha256 |-> None])

mark_file_processed(table, server_name, filename, file_date, hash_sha256, now) ==
    LET key == <<server_name, filename>>
        first_seen_at == IF key \in DOMAIN table THEN table[key].first_seen_at ELSE now
    IN DictSet(table, key, [file_date |-> file_date, first_seen_at |-> first_seen_at,
                            last_processed_at |-> now, hash_sha256 |-> hash_sha256])

is_jsonl_already_persisted(table, jsonl_path) == jsonl_path \in DOMAIN table

\* A variant of mark_jsonl_persisted whose update replaces the whole row.
mark_jsonl_persisted_replaces(table, jsonl_path, server_name, source_file, rows_inserted, now) ==
    DictSet(table, jsonl_path,
            [server_name |-> server_name, source_file |-> source_file,
             rows_inserted |-> rows_inserted,
             first_persisted_at |-> now, last_persisted_at |-> now])

mark_jsonl_persisted(table, jsonl_path, server_name, source_file, rows_inserted, now) ==
    LET first_persisted_at ==
            IF jsonl_path \in DOMAIN table THEN table[jsonl_path].first_persisted_at
            ELSE now
    IN DictSet(table, jsonl_path,
               [server_name |-> server_name, source_file |-> source_file,
                rows_inserted |-> rows_inserted,
                first_persisted_at |-> first_persisted_at, last_persisted_at |-> now])

(***************************************************************************)
(* The files and servers of the model.                                     *)
(***************************************************************************)
LineFull == <<Tok("RqType", "IP"), Tok("ReId", "123"), Tok("FaceSampleId", "1"),
              Tok("SampleType", "STILL"), Tok("Face", "200"), Tok("IrisSampleId", "1"),
              Tok("LeftEye", "84"), Tok("RightEye", "84")>>
LineStatus == <<Tok("RqType", "IP"), Tok("ReId", "9"), Tok("ReId", "-7")>>
LineOther == <<Tok("RqType", "XX"), Tok("ReId", "1"), Word("started")>>
LineFinger == <<Tok("RqType", "IP"), Tok("ReId", "2"), Tok("FingerprintSampleId", "1"),
                Tok("RightThumb", "84"), Tok("nbpk", "9")>>

\* Log files below the input root, in the order sorted() gives their paths.
LogA == [server |-> "s1", name |-> <<"quality", "2026-01-26", "log">>]
LogB == [server |-> "s1", name |-> <<"startup", "log">>]
LogC == [server |-> "s2", name |-> <<"quality", "2026-01-27", "log">>]
SortedLogs == <<LogA, LogB, LogC>>
Logs == {SortedLogs[i] : i \in DOMAIN SortedLogs}

\* The lines of each log file (<<>> is a blank line).
Content(path) ==
    IF path = LogA THEN <<LineStatus, <<>>, LineOther, LineFull>>
    ELSE IF path = LogB THEN <<LineOther>>
    ELSE <<LineFinger>>

NoFile == [server |-> "", name |-> <<>>]

\* hashlib.sha256 of a file's bytes: a digest that names the bytes.
sha256(bytes) == [sha256_of |-> bytes]

\* settings.ssh_servers and what sftp.listdir_attr returns for each.
ServerS1 == [name |-> "s1", host |-> "10.0.0.1", remote_dir |-> "/var/log/bio"]
ServerS2 == [name |-> "s2", host |-> "10.0.0.2", remote_dir |-> "/var/log/bio"]
RemoteListing(server) ==
    IF server.name = "s1"
    THEN <<<<"notes", "txt">>, <<"quality", "2026-01-26", "log">>,
           <<"quality", "2026-12-31", "log">>>>
    ELSE <<<<"readme", "txt">>, <<"startup", "log">>, <<"quality", "2026-13-45", "log">>>>

\* The settings object handed to the stages.  config.AppSettings declares
\* neither execution_log_dir nor archive_dir / archive_json_dir, which
\* collect_cli, collector and processor read: has_* tells whether the object
\* carries the attribute.
CompleteSettings ==
    [has_execution_log_dir |-> TRUE, has_archive_dir |-> TRUE,
     ssh_servers |-> <<ServerS1, ServerS2>>,
     ssh_user |-> Some("ingest"), ssh_password |-> Some("secret")]
LoadedSettings ==
    [CompleteSettings EXCEPT !.has_execution_log_dir = FALSE, !.has_archive_dir = FALSE]
NoArchiveSettings == [CompleteSettings EXCEPT !.has_archive_dir = FALSE]
SettingsChoices == {CompleteSettings, LoadedSettings, NoArchiveSettings}

\* Settings with a configuration error of the collector: no server, or
\* servers without SSH credentials (with and without an archive_dir
\* attribute on the settings object).
NoServersSettings == [CompleteSettings EXCEPT !.ssh_servers = <<>>]
NoUserSettings == [CompleteSettings EXCEPT !.ssh_user = None]
NoPasswordSettings == [NoArchiveSettings EXCEPT !.ssh_password = None]
ConfigChoices ==
    {CompleteSettings, NoServersSettings, NoUserSettings, NoPasswordSettings}

(***************************************************************************)
(* State.                                                                  *)
(***************************************************************************)
VARIABLES
    settings,               \* the AppSettings of the process
    pc,                     \* where main is
    run,                    \* number of runs started; also the clock of the ledger
    exit,                   \* how the last run of main ended
    inputRoot,              \* log paths present below INPUT_DIR
    logArchive,             \* log paths present below ARCHIVE_DIR
    outputRoot,             \* JSONL path -> objects written, below OUTPUT_JSON_DIR
    jsonlArchive,           \* JSONL paths present below ARCHIVE_JSON_DIR
    processed_files,        \* ledger table processed_files
    persisted_jsonl_files,  \* ledger table persisted_jsonl_files
    store,                  \* table biometric_scores: row -> number of copies
    queue,                  \* what the current for loop has still to visit
    cur,                    \* the file of the current iteration
    counts,                 \* downloaded, processed_files, processed_jsonl_files, rows
    session,                \* rows flushed in the open database transaction
    persisted_rows,         \* value returned by the last persist_records call
    h                       \* history of the current calls, read by the properties only

vars == <<settings, pc, run, exit, inputRoot, logArchive, outputRoot, jsonlArchive,
          processed_files, persisted_jsonl_files, store, queue, cur, counts, session,
          persisted_rows, h>>

files == <<inputRoot, logArchive, outputRoot, jsonlArchive>>
ledger == <<processed_files, persisted_jsonl_files>>
database == <<store, session, persisted_rows>>

ZeroCounts == [downloaded |-> 0, processed_files |-> 0, processed_jsonl_files |-> 0,
               total_rows_inserted |-> 0]

NoPrev == [valid |-> FALSE, pf |-> EmptyDict, pj |-> EmptyDict, st |-> EmptyDict]

HistoryInit ==
    [attemptedServers |-> <<>>, failedServers |-> {}, unreachableServers |-> {},
     input0 |-> {}, fetched |-> {},
     scanned |-> {}, attempts |-> [p \in Logs |-> 0], failedLogs |-> {},
     returned |-> [p \in Logs |-> None], movedLogs |-> {}, written |-> {},
     ledger0 |-> EmptyDict, lastArchive |-> [p \in Logs |-> "none"],
     failedPersist |-> {}, movedJsonl |-> {}, store0 |-> EmptyDict,
     jscanned |-> <<>>, jattempted |-> <<>>,
     persistOutcome |-> "none", committed |-> EmptyDict, rows0 |-> 0,
     clean |-> FALSE, prev |-> NoPrev, faults |-> 0, deliveries |-> 0]

\* The history of the calls of one stage, forgotten when the next stage starts;
\* the files a stage failed on are remembered until its next scan.
ForgetCollect(hh) ==
    [hh EXCEPT !.attemptedServers = <<>>, !.failedServers = {},
               !.unreachableServers = {}, !.input0 = {}, !.fetched = {}]
ForgetProcess(hh) ==
    [hh EXCEPT !.scanned = {}, !.attempts = [p \in Logs |-> 0],
               !.returned = [p \in Logs |-> None], !.movedLogs = {}, !.written = {},
               !.ledger0 = EmptyDict]
ForgetPersist(hh) ==
    [hh EXCEPT !.movedJsonl = {}, !.store0 = EmptyDict, !.persistOutcome = "none",
               !.rows0 = 0,
               !.jscanned = <<>>, !.jattempted = <<>>]

Start ==
    /\ pc = "idle"
    /\ run = 0
    /\ exit = [kind |-> "none", at |-> ""]
    /\ inputRoot = {}
    /\ logArchive = {}
    /\ outputRoot = EmptyDict
    /\ jsonlArchive = {}
    /\ processed_files = EmptyDict
    /\ persisted_jsonl_files = EmptyDict
    /\ store = EmptyDict
    /\ queue = <<>>
    /\ cur = NoFile
    /\ counts = ZeroCounts
    /\ session = <<>>
    /\ persisted_rows = 0
    /\ h = HistoryInit

Init == settings \in SettingsChoices /\ Start

\* An injected failure: the run is not a clean one, and one more is used up.
CanFail == h.faults < MaxFaults
Fault(hh) == [hh EXCEPT !.clean = FALSE, !.faults = @ + 1]

\* An exception that nothing catches leaves main: the run ends there.
Propagate(origin) ==
    /\ pc' = "idle"
    /\ exit' = [kind |-> "raised", at |-> origin]
    /\ queue' = <<>>
    /\ cur' = NoFile
    /\ session' = <<>>

(***************************************************************************)
(* The environment: a log file appears below the input root (put there by  *)
(* an operator or by any other transfer) while no run is in progress.      *)
(***************************************************************************)
DeliverLog(p) ==
    /\ pc = "idle"
    /\ p \notin inputRoot
    /\ h.deliveries < MaxDeliveries
    /\ inputRoot' = inputRoot \cup {p}
    /\ h' = [h EXCEPT !.prev = NoPrev, !.deliveries = @ + 1]
    /\ UNCHANGED <<settings, pc, run, exit, logArchive, outputRoot, jsonlArchive, ledger,
                   database, queue, cur, counts>>

(***************************************************************************)
(* collect_cli.main                                                        *)
(***************************************************************************)
StartRun ==
    /\ pc = "idle"
    /\ run < MaxRuns
    /\ run' = run + 1
    /\ counts' = ZeroCounts
    /\ h' = [h EXCEPT !.clean = TRUE]
    /\ IF ~settings.has_execution_log_dir
       THEN Propagate("collect_cli.main:58")
       ELSE /\ pc' = "collect"
            /\ exit' = [kind |-> "running", at |-> ""]
            /\ UNCHANGED <<queue, cur, session>>
    /\ UNCHANGED <<settings, files, ledger, store, persisted_rows>>

Summary ==
    /\ pc = "summary"
    /\ pc' = "idle"
    /\ exit' = [kind |-> "returned", at |-> ""]
    /\ counts' = ZeroCounts
    /\ h' = [ForgetPersist(h) EXCEPT
                !.clean = FALSE,
                !.prev = IF h.clean
                         THEN [valid |-> TRUE, pf |-> processed_files,
                               pj |-> persisted_jsonl_files, st |-> store]
                         ELSE NoPrev]
    /\ UNCHANGED <<settings, run, files, ledger, database, queue, cur>>

\* The process is killed: nothing of the run survives but the files, the
\* ledger and the committed rows.
Crash ==
    /\ pc # "idle"
    /\ CanFail
    /\ pc' = "idle"
    /\ exit' = [kind |-> "killed", at |-> ""]
    /\ queue' = <<>>
    /\ cur' = NoFile
    /\ session' = <<>>
    /\ counts' = ZeroCounts
    /\ h' = [ForgetCollect(ForgetProcess(ForgetPersist(Fault(h)))) EXCEPT
                !.prev = NoPrev, !.failedLogs = {}, !.failedPersist = {}]
    /\ UNCHANGED <<settings, run, files, ledger, store, persisted_rows>>

(***************************************************************************)
(* collector.py                                                            *)
(***************************************************************************)
Lower(c) == IF c = "LOG" THEN "log" ELSE c

\* filename.lower().endswith(".log")
EndsWithLog(filename) ==
    Len(filename) > 1 /\ Lower(filename[Len(filename)]) = "log"

\* The for loop of _collect_from_server over the listing.  The names threshold
\* and settings are bound neither in the function nor in the module: the
\* comparison file_date > threshold of the first dated .log entry raises
\* NameError, so no entry reaches the ledger check or sftp.get.
\* date.today() of the run, and the order of the dates that file names carry.
Today == "2026-04-10"
DayNumber ==
    [d \in DateTokens \cup {Today} |->
        CASE d = "2026-01-26" -> 26 [] d = "2026-01-27" -> 27
          [] d = "2026-04-10" -> 100 [] OTHER -> 365]

\* file_date <= threshold, for threshold = today - timedelta(days=1).
OnOrBeforeThreshold(file_date) == DayNumber[file_date[1]] <= DayNumber[Today] - 1

\* local_path of an entry: <input root>/<server name>/<filename>.
LocalPath(server, filename) == [server |-> server.name, name |-> filename]

\* A variant of the loop with threshold bound and without the ledger and
\* presence checks.
RECURSIVE collect_loop_unchecked(_, _, _, _)
collect_loop_unchecked(server, entries, downloaded, fetched) ==
    IF entries = <<>>
    THEN [raised |-> FALSE, downloaded |-> downloaded, fetched |-> fetched]
    ELSE IF \/ ~EndsWithLog(Head(entries))
            \/ extract_file_date(Head(entries)) = None
            \/ ~OnOrBeforeThreshold(extract_file_date(Head(entries)))
         THEN collect_loop_unchecked(server, Tail(entries), downloaded, fetched)
    ELSE collect_loop_unchecked(server, Tail(entries), downloaded + 1,
                                fetched \cup {LocalPath(server, Head(entries))})

\* A variant of the loop that fetches every new .log entry, whatever its date.
RECURSIVE collect_loop_any_date(_, _, _, _)
collect_loop_any_date(server, entries, downloaded, fetched) ==
    IF entries = <<>>
    THEN [raised |-> FALSE, downloaded |-> downloaded, fetched |-> fetched]
    ELSE IF \/ ~EndsWithLog(Head(entries))
            \/ is_file_already_processed(processed_files, server.name, Head(entries))
            \/ LocalPath(server, Head(entries)) \in inputRoot \cup logArchive
         THEN collect_loop_any_date(server, Tail(entries), downloaded, fetched)
    ELSE collect_loop_any_date(server, Tail(entries), downloaded + 1,
                               fetched \cup {LocalPath(server, Head(entries))})

\* A variant of the loop that counts the entries it skips for their date.
RECURSIVE collect_loop_counts_skipped(_, _, _, _)
collect_loop_counts_skipped(server, entries, downloaded, fetched) ==
    IF entries = <<>>
    THEN [raised |-> FALSE, downloaded |-> downloaded, fetched |-> fetched]
    ELSE IF ~EndsWithLog(Head(entries))
         THEN collect_loop_counts_skipped(server, Tail(entries), downloaded, fetched)
    ELSE IF extract_file_date(Head(entries)) = None
         THEN collect_loop_counts_skipped(server, Tail(entries), downloaded + 1, fetched)
    ELSE [raised |-> TRUE, downloaded |-> downloaded, fetched |-> fetched]

RECURSIVE collect_loop(_, _, _, _)
collect_loop(server, entries, downloaded, fetched) ==
    IF entries = <<>>
    THEN [raised |-> FALSE, downloaded |-> downloaded, fetched |-> fetched]
    ELSE IF ~EndsWithLog(Head(entries))
         THEN collect_loop(server, Tail(entries), downloaded, fetched)
    ELSE IF extract_file_date(Head(entries)) = None
         THEN collect_loop(server, Tail(entries), downloaded, fetched)
    ELSE [raised |-> TRUE, downloaded |-> downloaded, fetched |-> fetched]

\* _collect_from_server for a server that is connected to and listed:
\* downloaded, the local paths sftp.get has written, and whether it raised.
CollectResult(server) == collect_loop(server, RemoteListing(server), 0, {})

\* collect_from_servers up to its loop.
CollectBegin ==
    /\ pc = "collect"
    /\ h' = [ForgetCollect(h) EXCEPT !.input0 = inputRoot]
    /\ IF settings.ssh_servers = <<>>
       THEN /\ pc' = "scan_logs"
            /\ UNCHANGED <<queue, cur, exit, session>>
       ELSE IF ~settings.has_archive_dir
       THEN Propagate("collect_from_servers:139")
       ELSE IF settings.ssh_user = None \/ settings.ssh_password = None
       THEN /\ pc' = "scan_logs"
            /\ UNCHANGED <<queue, cur, exit, session>>
       ELSE /\ pc' = "collect_server"
            /\ queue' = settings.ssh_servers
            /\ UNCHANGED <<cur, exit, session>>
    /\ UNCHANGED <<settings, run, files, ledger, store, persisted_rows, counts>>

\* A variant of collect_from_servers whose except clause leaves the loop.
CollectServerFailed_breaks(server, injected) ==
    /\ pc' = "collect_server"
    /\ queue' = <<>>
    /\ h' = [(IF injected THEN Fault(h) ELSE h) EXCEPT
                !.attemptedServers = Append(@, server.name),
                !.failedServers = @ \cup {server.name},
                !.unreachableServers = @ \cup (IF injected THEN {server.name} ELSE {}),
                !.fetched = @ \cup (IF injected THEN {} ELSE CollectResult(server).fetched)]
    /\ UNCHANGED <<cur, exit, session, counts>>

\* except Exception of collect_from_servers: log, go on with the next server.
CollectServerFailed(server, injected) ==
    /\ pc' = "collect_server"
    /\ queue' = Tail(queue)
    /\ h' = [(IF injected THEN Fault(h) ELSE h) EXCEPT
                !.attemptedServers = Append(@, server.name),
                !.failedServers = @ \cup {server.name},
                !.unreachableServers = @ \cup (IF injected THEN {server.name} ELSE {}),
                !.fetched = @ \cup (IF injected THEN {} ELSE CollectResult(server).fetched)]
    /\ UNCHANGED <<cur, exit, session, counts>>

\* One iteration of the loop of collect_from_servers: _collect_from_server.
CollectFromServer ==
    /\ pc = "collect_server"
    /\ queue # <<>>
    /\ LET server == Head(queue)
           r == CollectResult(server)
       IN \/ \* ssh.connect, open_sftp, mkdir or listdir_attr raises
             /\ CanFail
             /\ CollectServerFailed(server, TRUE)
             /\ UNCHANGED inputRoot
          \/ \* the loop raises: what it has written stays, its count is lost
             /\ r.raised
             /\ CollectServerFailed(server, FALSE)
             /\ inputRoot' = inputRoot \cup r.fetched
          \/ /\ ~r.raised
             /\ pc' = "collect_server"
             /\ queue' = Tail(queue)
             /\ counts' = [counts EXCEPT !.downloaded = @ + r.downloaded]
             /\ inputRoot' = inputRoot \cup r.fetched
             /\ h' = [h EXCEPT !.attemptedServers = Append(@, server.name),
                               !.fetched = @ \cup r.fetched]
             /\ UNCHANGED <<cur, exit, session>>
    /\ UNCHANGED <<settings, run, logArchive, outputRoot, jsonlArchive, ledger, store,
                   persisted_rows>>

CollectReturn ==
    /\ pc = "collect_server"
    /\ queue = <<>>
    /\ pc' = "scan_logs"
    /\ UNCHANGED <<settings, run, exit, files, ledger, database, queue, cur, counts, h>>

(***************************************************************************)
(* processor.py : process_all_logs                                         *)
(***************************************************************************)
iter_log_files(root) == SelectSeq(SortedLogs, LAMBDA p : p \in root)

\* A variant of the filter that keeps the records of every request type.
ip_records_keeps_all(records) == records

RECURSIVE ip_records(_)
ip_records(records) ==
    IF records = <<>> THEN <<>>
    ELSE (IF Head(records).rq_type = "IP" THEN <<Head(records)>> ELSE <<>>)
         \o ip_records(Tail(records))

\* records and ip_records of process_log_file, for every log file.
IpRecordsTable == [p \in Logs |-> ip_records(parse_file(Content(p)))]
IpRecordsOf(p) == IpRecordsTable[p]

RECURSIVE JsonLines(_)
JsonLines(records) ==
    IF records = <<>> THEN <<>>
    ELSE <<record_to_dict(Head(records))>> \o JsonLines(Tail(records))

ScanLogs ==
    /\ pc = "scan_logs"
    /\ LET log_files == iter_log_files(inputRoot)
       IN /\ queue' = log_files
          /\ pc' = IF log_files = <<>> THEN "scan_jsonl" ELSE "parse"
    /\ h' = [ForgetCollect(h) EXCEPT !.scanned = inputRoot, !.failedLogs = {},
                                     !.ledger0 = processed_files]
    /\ UNCHANGED <<settings, run, exit, files, ledger, database, cur, counts>>

ProcessAllLogsReturn ==
    /\ pc = "parse"
    /\ queue = <<>>
    /\ pc' = "scan_jsonl"
    /\ UNCHANGED <<settings, run, exit, files, ledger, database, queue, cur, counts, h>>

\* A variant of process_all_logs whose except clause leaves the loop.
LogFileFailed_breaks(p, hh) ==
    /\ pc' = "parse"
    /\ queue' = <<>>
    /\ cur' = NoFile
    /\ CanFail
    /\ h' = [Fault(hh) EXCEPT !.failedLogs = @ \cup {p}]
    /\ UNCHANGED <<exit, session, counts>>

\* except Exception of process_all_logs: log, go on with the next file.
LogFileFailed(p, hh) ==
    /\ pc' = "parse"
    /\ queue' = Tail(queue)
    /\ cur' = NoFile
    /\ CanFail
    /\ h' = [Fault(hh) EXCEPT !.failedLogs = @ \cup {p}]
    /\ UNCHANGED <<exit, session, counts>>

\* A variant of process_log_file that returns 0 for a file without an IP
\* record and leaves the file where it is.
ParseLogFile_keeps_empty ==
    /\ pc = "parse"
    /\ queue # <<>>
    /\ LET p == Head(queue)
           hh == [h EXCEPT !.attempts[p] = @ + 1]
       IN IF IpRecordsOf(p) = <<>>
          THEN /\ pc' = "parse"
               /\ queue' = Tail(queue)
               /\ h' = [hh EXCEPT !.returned[p] = Some(0)]
               /\ UNCHANGED <<cur, exit, session, counts>>
          ELSE /\ cur' = p
               /\ pc' = "write"
               /\ h' = hh
               /\ UNCHANGED <<queue, exit, session, counts>>
    /\ UNCHANGED <<settings, run, files, ledger, store, persisted_rows>>

\* process_log_file up to the choice between the two archive_log_file calls.
ParseLogFile ==
    /\ pc = "parse"
    /\ queue # <<>>
    /\ LET p == Head(queue)
           hh == [h EXCEPT !.attempts[p] = @ + 1]
       IN \/ \* parse_file raises (the file cannot be opened or read)
             LogFileFailed(p, hh)
          \/ /\ cur' = p
             /\ pc' = IF IpRecordsOf(p) = <<>>
                      THEN "archive_move" ELSE "write"
             /\ h' = hh
             /\ UNCHANGED <<queue, exit, session, counts>>
    /\ UNCHANGED <<settings, run, files, ledger, store, persisted_rows>>

\* The JSONL of process_log_file: open("w") empties the file, then one object
\* is written per IP record; a failure leaves what was written so far.
WriteJsonl ==
    /\ pc = "write"
    /\ LET out == output_path_of(cur)
           lines == JsonLines(IpRecordsOf(cur))
       IN \/ /\ outputRoot' = DictSet(outputRoot, out, lines)
             /\ pc' = "archive_move"
             /\ h' = [h EXCEPT !.written = @ \cup {out}]
             /\ UNCHANGED <<queue, cur, exit, session, counts>>
          \/ \* mkdir or open raises: nothing is written
             /\ UNCHANGED outputRoot
             /\ LogFileFailed(cur, h)
          \/ \* a write raises after k objects
             \E k \in 0 .. (Len(lines) - 1) :
                /\ outputRoot' = DictSet(outputRoot, out, SubSeq(lines, 1, k))
                /\ LogFileFailed(cur, [h EXCEPT !.written = @ \cup {out}])
    /\ UNCHANGED <<settings, run, inputRoot, logArchive, jsonlArchive, ledger, store,
                   persisted_rows>>

\* A variant of archive_log_file that raises after it has moved the file.
ArchiveLogMove_raises_late ==
    /\ pc = "archive_move"
    /\ inputRoot' = inputRoot \ {cur}
    /\ logArchive' = logArchive \cup {cur}
    /\ LogFileFailed(cur, h)
    /\ UNCHANGED <<settings, run, outputRoot, jsonlArchive, ledger, store, persisted_rows>>

\* A variant of archive_log_file that copies the file instead of moving it.
ArchiveLogMove_copies ==
    /\ pc = "archive_move"
    /\ logArchive' = logArchive \cup {cur}
    /\ pc' = "archive_mark"
    /\ h' = [h EXCEPT !.movedLogs = @ \cup {cur}, !.lastArchive[cur] = "moved"]
    /\ UNCHANGED <<settings, run, inputRoot, outputRoot, jsonlArchive, ledger, store,
                   persisted_rows, queue, cur, exit, session, counts>>

\* archive_log_file up to shutil.move.
ArchiveLogMove ==
    /\ pc = "archive_move"
    /\ \/ /\ inputRoot' = inputRoot \ {cur}
          /\ logArchive' = logArchive \cup {cur}
          /\ pc' = "archive_mark"
          /\ h' = [h EXCEPT !.movedLogs = @ \cup {cur}, !.lastArchive[cur] = "moved"]
          /\ UNCHANGED <<queue, cur, exit, session, counts>>
       \/ \* settings.archive_dir, mkdir or shutil.move raises
          /\ UNCHANGED <<inputRoot, logArchive>>
          /\ LogFileFailed(cur, h)
    /\ UNCHANGED <<settings, run, outputRoot, jsonlArchive, ledger, store, persisted_rows>>

\* archive_log_file after the move: the hash and the ledger entry, each in its
\* own try/except; then process_log_file returns.
ArchiveLogMark ==
    /\ pc = "archive_mark"
    /\ \E hashed \in BOOLEAN, marked \in BOOLEAN :
          LET hash_sha256 == IF hashed THEN Some(sha256(Content(cur))) ELSE None
          IN /\ processed_files' =
                    IF marked
                    THEN mark_file_processed(processed_files, cur.server, cur.name,
                                             search_date(cur.name), hash_sha256, run)
                    ELSE processed_files
             /\ (hashed /\ marked) \/ CanFail
             /\ h' = [(IF hashed /\ marked THEN h ELSE Fault(h)) EXCEPT
                         !.returned[cur] =
                             Some(Len(IpRecordsOf(cur))),
                         !.lastArchive[cur] =
                             IF ~marked THEN "unmarked"
                             ELSE IF hashed THEN "marked" ELSE "marked_nohash"]
    /\ counts' = [counts EXCEPT !.processed_files = @ + 1]
    /\ queue' = Tail(queue)
    /\ cur' = NoFile
    /\ pc' = "parse"
    /\ UNCHANGED <<settings, run, exit, files, persisted_jsonl_files, database>>

(***************************************************************************)
(* processor.py : persist_all_jsonl_files, db.py : persist_records         *)
(***************************************************************************)
SortedJsonls == [i \in DOMAIN SortedLogs |-> output_path_of(SortedLogs[i])]

iter_jsonl_files(out) == SelectSeq(SortedJsonls, LAMBDA p : p \in DOMAIN out)

\* The records list built from the lines of a JSONL file.
RECURSIVE read_jsonl(_)
read_jsonl(lines) ==
    IF lines = <<>> THEN <<>>
    ELSE (IF dict_to_record(Head(lines)).rq_type = "IP"
          THEN <<dict_to_record(Head(lines))>> ELSE <<>>)
         \o read_jsonl(Tail(lines))

\* session.bulk_save_objects / session.commit on the table: each row once more.
RECURSIVE AddRows(_, _)
AddRows(table, rows) ==
    IF rows = <<>> THEN table
    ELSE AddRows(DictSet(table, Head(rows), Get(table, Head(rows), 0) + 1), Tail(rows))

\* The number of rows of the table under the given keys.
RECURSIVE SumOver(_, _)
SumOver(table, keys) ==
    IF keys = {} THEN 0
    ELSE LET k == CHOOSE x \in keys : TRUE
         IN table[k] + SumOver(table, keys \ {k})

\* all_scores of the persist_records call for a JSONL path.
AllScoresOf(jsonl_path, lines) ==
    AllScores(read_jsonl(lines), jsonl_path.server, source_file_of(jsonl_path.name))

ScanJsonl ==
    /\ pc = "scan_jsonl"
    /\ LET jsonl_files == iter_jsonl_files(outputRoot)
       IN /\ queue' = jsonl_files
          /\ pc' = IF jsonl_files = <<>> THEN "summary" ELSE "check"
    /\ h' = [ForgetProcess(h) EXCEPT !.failedPersist = {},
                                     !.jscanned = iter_jsonl_files(outputRoot),
                                     !.rows0 = SumOver(store, DOMAIN store)]
    /\ UNCHANGED <<settings, run, exit, files, ledger, database, cur, counts>>

PersistAllReturn ==
    /\ pc = "check"
    /\ queue = <<>>
    /\ pc' = "summary"
    /\ UNCHANGED <<settings, run, exit, files, ledger, database, queue, cur, counts, h>>

\* A variant of persist_all_jsonl_files whose except clauses leave the loop.
JsonlFailed_breaks(hh) ==
    /\ pc' = "check"
    /\ queue' = <<>>
    /\ cur' = NoFile
    /\ h' = hh
    /\ UNCHANGED <<exit, counts>>

\* The two except Exception clauses of the loop: log, go on with the next file.
JsonlFailed(hh) ==
    /\ pc' = "check"
    /\ queue' = Tail(queue)
    /\ cur' = NoFile
    /\ h' = hh
    /\ UNCHANGED <<exit, counts>>

\* A variant of the iteration that reads every JSONL, ledger entry or not.
CheckJsonl_ignores_ledger ==
    /\ pc = "check"
    /\ queue # <<>>
    /\ LET j == Head(queue)
       IN /\ cur' = j
          /\ pc' = IF read_jsonl(outputRoot[j]) = <<>> THEN "archive_jsonl" ELSE "persist"
          /\ h' = [h EXCEPT !.persistOutcome = "none", !.store0 = EmptyDict,
                            !.jattempted = Append(@, j)]
          /\ UNCHANGED <<queue, exit, counts>>
    /\ UNCHANGED <<settings, run, files, ledger, database>>

\* One iteration up to the persist_records call: the ledger lookup, the read.
CheckJsonl ==
    /\ pc = "check"
    /\ queue # <<>>
    /\ LET j == Head(queue)
           hh == [h EXCEPT !.persistOutcome = "none", !.store0 = EmptyDict,
                           !.jattempted = Append(@, j)]
       IN \/ \* is_jsonl_already_persisted or open raises
             /\ CanFail
             /\ JsonlFailed(Fault(hh))
          \/ /\ cur' = j
             /\ pc' = IF is_jsonl_already_persisted(persisted_jsonl_files, j)
                      THEN "archive_jsonl"
                      ELSE IF read_jsonl(outputRoot[j]) = <<>> THEN "archive_jsonl"
                      ELSE "persist"
             /\ h' = hh
             /\ UNCHANGED <<queue, exit, counts>>
    /\ UNCHANGED <<settings, run, files, ledger, database>>

\* persist_records up to session.commit: the rows are flushed in a transaction.
PersistRecords ==
    /\ pc = "persist"
    /\ LET all_scores == AllScoresOf(cur, outputRoot[cur])
           hh == [h EXCEPT !.store0 = store, !.persistOutcome = "running"]
       IN IF all_scores = <<>>
          THEN /\ persisted_rows' = 0
               /\ pc' = "mark"
               /\ h' = [hh EXCEPT !.persistOutcome = "returned",
                                  !.committed = DictSet(@, cur, [rows |-> 0,
                                                                 commit |-> FALSE])]
               /\ UNCHANGED session
          ELSE \/ /\ session' = all_scores
                  /\ pc' = "commit"
                  /\ h' = hh
                  /\ UNCHANGED persisted_rows
               \/ \* get_session or bulk_save_objects raises after k rows
                  \E k \in 0 .. (Len(all_scores) - 1) :
                     /\ CanFail
                     /\ session' = SubSeq(all_scores, 1, k)
                     /\ pc' = "rollback"
                     /\ h' = Fault(hh)
                     /\ UNCHANGED persisted_rows
    /\ UNCHANGED <<settings, run, exit, files, ledger, store, queue, cur, counts>>

\* A variant of session.commit whose failure leaves the flushed rows behind.
Commit_keeps_rows ==
    /\ pc = "commit"
    /\ CanFail
    /\ store' = AddRows(store, session)
    /\ pc' = "rollback"
    /\ h' = Fault(h)
    /\ UNCHANGED <<settings, run, exit, files, ledger, queue, cur, persisted_rows, counts,
                   session>>

\* session.commit, then total_inserted = len(all_scores) is returned.
Commit ==
    /\ pc = "commit"
    /\ \/ /\ store' = AddRows(store, session)
          /\ session' = <<>>
          /\ persisted_rows' = Len(session)
          /\ counts' = [counts EXCEPT !.total_rows_inserted = @ + Len(session)]
          /\ pc' = "mark"
          /\ h' = [h EXCEPT !.persistOutcome = "returned",
                            !.committed = DictSet(@, cur, [rows |-> Len(session),
                                                           commit |-> TRUE])]
       \/ \* commit raises: nothing of the transaction is kept
          /\ CanFail
          /\ pc' = "rollback"
          /\ h' = Fault(h)
          /\ UNCHANGED <<store, persisted_rows, counts, session>>
    /\ UNCHANGED <<settings, run, exit, files, ledger, queue, cur>>

\* A variant of the caller that swallows the exception of persist_records
\* and goes on with mark_jsonl_persisted and archive_jsonl_file.
Rollback_swallowed ==
    /\ pc = "rollback"
    /\ session' = <<>>
    /\ pc' = "mark"
    /\ h' = [h EXCEPT !.persistOutcome = "raised", !.failedPersist = @ \cup {cur}]
    /\ UNCHANGED <<settings, run, files, ledger, store, persisted_rows, queue, cur, exit,
                   counts>>

\* session.rollback and raise; the except Exception at the end of the
\* iteration logs it: neither mark_jsonl_persisted nor archive_jsonl_file runs.
Rollback ==
    /\ pc = "rollback"
    /\ session' = <<>>
    /\ JsonlFailed([h EXCEPT !.persistOutcome = "raised",
                             !.failedPersist = @ \cup {cur}])
    /\ UNCHANGED <<settings, run, files, ledger, store, persisted_rows>>

\* A variant of the caller that records the number of JSON objects of the
\* file as rows_inserted.
MarkJsonl_counts_objects ==
    /\ pc = "mark"
    /\ persisted_jsonl_files' =
           mark_jsonl_persisted(persisted_jsonl_files, cur, cur.server,
                                source_file_of(cur.name), Len(outputRoot[cur]), run)
    /\ pc' = "archive_jsonl"
    /\ UNCHANGED <<settings, run, exit, files, processed_files, database, queue, cur,
                   counts, h>>

\* mark_jsonl_persisted in its own try/except: a failure is logged only.
MarkJsonl ==
    /\ pc = "mark"
    /\ \/ /\ persisted_jsonl_files' =
                 mark_jsonl_persisted(persisted_jsonl_files, cur, cur.server,
                                      source_file_of(cur.name), persisted_rows, run)
          /\ UNCHANGED h
       \/ /\ CanFail
          /\ UNCHANGED persisted_jsonl_files
          /\ h' = Fault(h)
    /\ pc' = "archive_jsonl"
    /\ UNCHANGED <<settings, run, exit, files, processed_files, database, queue, cur,
                   counts>>

\* A variant of the loop that counts a JSONL before archive_jsonl_file is
\* called, moved or not.
ArchiveJsonl_counts_failures ==
    /\ pc = "archive_jsonl"
    /\ counts' = [counts EXCEPT !.processed_jsonl_files = @ + 1]
    /\ pc' = "check"
    /\ queue' = Tail(queue)
    /\ cur' = NoFile
    /\ \/ /\ outputRoot' = [p \in DOMAIN outputRoot \ {cur} |-> outputRoot[p]]
          /\ jsonlArchive' = jsonlArchive \cup {cur}
          /\ h' = [h EXCEPT !.movedJsonl = @ \cup {cur}]
       \/ /\ CanFail
          /\ UNCHANGED <<outputRoot, jsonlArchive>>
          /\ h' = Fault(h)
    /\ UNCHANGED <<settings, run, exit, inputRoot, logArchive, ledger, database>>

\* archive_jsonl_file, after the commit or for a JSONL that needs none.
ArchiveJsonl ==
    /\ pc = "archive_jsonl"
    /\ \/ /\ outputRoot' = [p \in DOMAIN outputRoot \ {cur} |-> outputRoot[p]]
          /\ jsonlArchive' = jsonlArchive \cup {cur}
          /\ counts' = [counts EXCEPT !.processed_jsonl_files = @ + 1]
          /\ pc' = "check"
          /\ queue' = Tail(queue)
          /\ cur' = NoFile
          /\ h' = [h EXCEPT !.movedJsonl = @ \cup {cur}]
          /\ UNCHANGED exit
       \/ \* settings.archive_json_dir, mkdir or shutil.move raises
          /\ CanFail
          /\ UNCHANGED <<outputRoot, jsonlArchive>>
          /\ JsonlFailed(Fault(h))
    /\ UNCHANGED <<settings, run, inputRoot, logArchive, ledger, database>>

Next ==
    \/ \E p \in Logs : DeliverLog(p)
    \/ StartRun
    \/ CollectBegin
    \/ CollectFromServer
    \/ CollectReturn
    \/ ScanLogs
    \/ ParseLogFile
    \/ WriteJsonl
    \/ ArchiveLogMove
    \/ ArchiveLogMark
    \/ ProcessAllLogsReturn
    \/ ScanJsonl
    \/ CheckJsonl
    \/ PersistRecords
    \/ Commit
    \/ Rollback
    \/ MarkJsonl
    \/ ArchiveJsonl
    \/ PersistAllReturn
    \/ Summary
    \/ Crash

Spec == Init /\ [][Next]_vars

\* The same program started with settings that carry a configuration error
\* of the collector.
InitConfig == settings \in ConfigChoices /\ Start
SpecConfig == InitConfig /\ [][Next]_vars

(***************************************************************************)
(* The ledger on its own: any sequence of mark_file_processed and          *)
(* mark_jsonl_persisted calls, by any caller, on a ledger that starts      *)
(* empty.  run is the clock the calls read; h remembers which keys were    *)
(* marked and the last call on each table.                                 *)
(***************************************************************************)
MaxMarks == 4

LedgerKeys == {<<ServerS1.name, LogA.name>>, <<ServerS2.name, LogA.name>>,
               <<ServerS1.name, LogB.name>>}
\* (file_date, hash_sha256) of a call: both Optional.
LedgerFileValues ==
    {<<None, None>>, <<search_date(LogA.name), None>>,
     <<search_date(LogA.name), Some(sha256(Content(LogA)))>>}
LedgerJsonls == {output_path_of(LogA), output_path_of(LogC)}
\* (server_name, rows_inserted) of a call.
LedgerJsonlValues == {<<ServerS1.name, 0>>, <<ServerS1.name, 2>>, <<ServerS2.name, 2>>}

\* What the two lookups answer for every key, on given tables.
FileLookups(table) ==
    [key \in LedgerKeys |-> is_file_already_processed(table, key[1], key[2])]
JsonlLookups(table) ==
    [jsonl_path \in LedgerJsonls |-> is_jsonl_already_persisted(table, jsonl_path)]

LedgerHistoryInit ==
    [markedFiles |-> {}, markedJsonl |-> {},
     fileLookups |-> FileLookups(EmptyDict), jsonlLookups |-> JsonlLookups(EmptyDict),
     lastFile |-> [existed |-> FALSE, key |-> <<"", <<>>>>, before |-> EmptyDict,
                   file_date |-> None, hash_sha256 |-> None, now |-> 0],
     lastJsonl |-> [existed |-> FALSE, key |-> NoFile, before |-> EmptyDict,
                    server_name |-> "", source_file |-> <<>>, rows_inserted |-> 0,
                    now |-> 0]]

InitLedger ==
    /\ settings = CompleteSettings
    /\ pc = "ledger"
    /\ run = 0
    /\ exit = [kind |-> "none", at |-> ""]
    /\ inputRoot = {}
    /\ logArchive = {}
    /\ outputRoot = EmptyDict
    /\ jsonlArchive = {}
    /\ processed_files = EmptyDict
    /\ persisted_jsonl_files = EmptyDict
    /\ store = EmptyDict
    /\ queue = <<>>
    /\ cur = NoFile
    /\ counts = ZeroCounts
    /\ session = <<>>
    /\ persisted_rows = 0
    /\ h = LedgerHistoryInit

LedgerMarkFile(key, file_date, hash_sha256) ==
    /\ pc = "ledger"
    /\ run < MaxMarks
    /\ run' = run + 1
    /\ processed_files' =
           mark_file_processed(processed_files, key[1], key[2], file_date, hash_sha256,
                               run')
    /\ h' = [h EXCEPT !.markedFiles = @ \cup {key},
                      !.fileLookups = FileLookups(processed_files'),
                      !.lastFile = [existed |-> key \in DOMAIN processed_files,
                                    key |-> key, before |-> processed_files,
                                    file_date |-> file_date,
                                    hash_sha256 |-> hash_sha256, now |-> run']]
    /\ UNCHANGED <<settings, pc, exit, files, persisted_jsonl_files, database, queue, cur,
                   counts>>

LedgerMarkJsonl(jsonl_path, server_name, rows_inserted) ==
    /\ pc = "ledger"
    /\ run < MaxMarks
    /\ run' = run + 1
    /\ persisted_jsonl_files' =
           mark_jsonl_persisted(persisted_jsonl_files, jsonl_path, server_name,
                                source_file_of(jsonl_path.name), rows_inserted, run')
    /\ h' = [h EXCEPT !.markedJsonl = @ \cup {jsonl_path},
                      !.jsonlLookups = JsonlLookups(persisted_jsonl_files'),
                      !.lastJsonl = [existed |-> jsonl_path \in DOMAIN persisted_jsonl_files,
                                     key |-> jsonl_path, before |-> persisted_jsonl_files,
                                     server_name |-> server_name,
                                     source_file |-> source_file_of(jsonl_path.name),
                                     rows_inserted |-> rows_inserted, now |-> run']]
    /\ UNCHANGED <<settings, pc, exit, files, processed_files, database, queue, cur,
                   counts>>

NextLedger ==
    \/ \E key \in LedgerKeys, v \in LedgerFileValues : LedgerMarkFile(key, v[1], v[2])
    \/ \E jsonl_path \in LedgerJsonls, v \in LedgerJsonlValues :
          LedgerMarkJsonl(jsonl_path, v[1], v[2])

SpecLedger == InitLedger /\ [][NextLedger]_vars

(***************************************************************************)
(* The parser on its own: parse_line applied to any line of at most        *)
(* MaxTokens tokens.  h holds the line and, once parsed, the record.       *)
(***************************************************************************)
MaxTokens == 3

LineTokens ==
    {Word("IP"), Tok("Face", "200"), Tok("Face", "abc"), Tok("FaceSampleId", "x1"),
     Tok("IrisSampleId", "1.5"), Tok("LeftEye", "abc"), Tok("RightEye", "84"),
     Tok("RightEye", ""), Tok("FingerprintSampleId", "1"),
     Tok("FingerprintSampleId", "abc"), Tok("RightThumb", "84"),
     Tok("RightThumb", "abc"), Tok("nbpk", "9"), Tok("nbpk", "abc")}

Lines == UNION {[1 .. n -> LineTokens] : n \in 0 .. MaxTokens}

\* Lines of at most MaxGroupTokens tokens over one of a few small alphabets:
\* the identity tokens, the tokens of fingerprint groups, the keys that are
\* not handled, and the tokens that give fact rows after RqType=IP.
MaxGroupTokens == 4

SeqsOver(alphabet) == UNION {[1 .. n -> alphabet] : n \in 0 .. MaxGroupTokens}

ReIdTokens ==
    {Tok("RqType", "IP"), Tok("ReId", "123"), Tok("ReId", "9"), Tok("ReId", "-7"),
     Tok("ReId", "-5"), Tok("ReId", "abc")}
GroupTokens ==
    {Tok("FingerprintSampleId", "1"), Tok("FingerprintSampleId", "2"),
     Tok("RightThumb", "84"), Tok("LeftIndex", "9"), Tok("nbpk", "9"),
     Tok("SampleType", "STILL"), Tok("SampleType", "LIVE"), Tok("Face", "200")}
ExtraTokens ==
    {Word("Foo"), Tok("Foo", "1"), Tok("Foo", "2"), Tok("Bar", "x"), Tok("Face", "200"),
     Tok("nbpk", "9"), Tok("RightThumb", "84"), Tok("FingerprintSampleId", "1")}
IpTokens ==
    {Tok("Face", "200"), Tok("Face", "0"), Tok("Face", "abc"), Tok("LeftEye", "84"),
     Tok("RightEye", "84"), Tok("FingerprintSampleId", "1"), Tok("RightThumb", "84"),
     Tok("nbpk", "9"), Tok("ReId", "-7"), Tok("Foo", "1")}

ReIdLines == SeqsOver(ReIdTokens)
GroupLines == SeqsOver(GroupTokens)
ExtraLines == SeqsOver(ExtraTokens)
IpLines == {<<Tok("RqType", "IP")>> \o line : line \in SeqsOver(IpTokens)}

\* The line of the format: every block present once, with integer values.
FullLines ==
    {<<Tok("RqType", "IP"), Tok("ReId", re_id), Tok("FaceSampleId", ids[1]),
       Tok("SampleType", sample_type), Tok("Face", scores[1]),
       Tok("IrisSampleId", ids[2]), Tok("LeftEye", scores[2]),
       Tok("RightEye", scores[3])>> :
         re_id \in {"123", "9"}, sample_type \in {"STILL", "LIVE"},
         ids \in [1 .. 2 -> {"1", "2"}], scores \in [1 .. 3 -> {"84", "200"}]}

AllLines == Lines \cup ReIdLines \cup GroupLines \cup ExtraLines \cup IpLines \cup FullLines

\* JSON objects of a JSONL file that no parse_line call wrote: a finger name
\* outside the ten canonical ones, a fingerprint entry without sample_id.
JsonObjects ==
    {[rq_type |-> "IP", re_id |-> "123", re_code |-> None, raw_line |-> None,
      fingerprints |->
          <<[sample_id |-> 1, sample_type |-> None,
             fingers |-> [f \in {"right_thumb", "thumb"} |->
                            [score |-> Some(84), nbpk |-> None]]]>>],
     [rq_type |-> "IP", re_id |-> "9",
      face |-> [score |-> Some(200)],
      fingerprints |-> <<[fingers |-> [f \in {"palm"} |-> [score |-> Some(9)]]]>>]}

\* (server_name, source_file) of the expansion: those of a log path.
RowSources == {LogA}

InitParser ==
    /\ settings = CompleteSettings
    /\ pc = "line"
    /\ run = 0
    /\ exit = [kind |-> "none", at |-> ""]
    /\ inputRoot = {}
    /\ logArchive = {}
    /\ outputRoot = EmptyDict
    /\ jsonlArchive = {}
    /\ processed_files = EmptyDict
    /\ persisted_jsonl_files = EmptyDict
    /\ store = EmptyDict
    /\ queue = <<>>
    /\ cur = NoFile
    /\ counts = ZeroCounts
    /\ session = <<>>
    /\ persisted_rows = 0
    /\ \E line \in AllLines :
          h = [line |-> line, record |-> None, rows |-> None, back |-> None]

ParseLine ==
    /\ pc = "line"
    /\ pc' = "parsed"
    /\ h' = [h EXCEPT !.record = Some(parse_line(h.line))]
    /\ UNCHANGED <<settings, run, exit, files, ledger, database, queue, cur, counts>>

\* A record read back from a JSON object instead of parsed from a line.
LoadRecord(data) ==
    /\ pc = "line"
    /\ h.line = <<>>
    /\ pc' = "loaded"
    /\ h' = [h EXCEPT !.record = Some(dict_to_record(data))]
    /\ UNCHANGED <<settings, run, exit, files, ledger, database, queue, cur, counts>>

\* _record_to_biometric_scores on the record.
ToFactRows(server_name, source_file) ==
    /\ pc \in {"parsed", "loaded"}
    /\ pc' = "rows"
    /\ h' = [h EXCEPT !.rows =
                 Some(record_to_biometric_scores(h.record[1], server_name, source_file))]
    /\ UNCHANGED <<settings, run, exit, files, ledger, database, queue, cur, counts>>

\* _record_to_dict on the parsed record, then _dict_to_record on the result.
RoundTrip ==
    /\ pc = "parsed"
    /\ pc' = "round_trip"
    /\ h' = [h EXCEPT !.back = Some(dict_to_record(record_to_dict(h.record[1])))]
    /\ UNCHANGED <<settings, run, exit, files, ledger, database, queue, cur, counts>>

NextParser ==
    \/ ParseLine
    \/ \E data \in JsonObjects : LoadRecord(data)
    \/ \E p \in RowSources : ToFactRows(p.server, p.name)
    \/ RoundTrip

SpecParser == InitParser /\ [][NextParser]_vars

(***************************************************************************)
(* The while loop of parse_line, one iteration at a time, on the tokens of *)
(* one line.  h holds the tokens, the locals of parse_line (the cursor i   *)
(* among them) and the cursor before the last iteration.  The loop is      *)
(* sequential code: an iteration that can run does run.                    *)
(***************************************************************************)
CursorLines == Lines \cup ReIdLines \cup GroupLines

InitCursor ==
    /\ settings = CompleteSettings
    /\ pc = "loop"
    /\ run = 0
    /\ exit = [kind |-> "none", at |-> ""]
    /\ inputRoot = {}
    /\ logArchive = {}
    /\ outputRoot = EmptyDict
    /\ jsonlArchive = {}
    /\ processed_files = EmptyDict
    /\ persisted_jsonl_files = EmptyDict
    /\ store = EmptyDict
    /\ queue = <<>>
    /\ cur = NoFile
    /\ counts = ZeroCounts
    /\ session = <<>>
    /\ persisted_rows = 0
    /\ \E line \in CursorLines : h = [line |-> line, s |-> ParseInit, before |-> 0]

\* while i < len(tokens): one iteration.
ParseIteration ==
    /\ pc = "loop"
    /\ h.s.i <= Len(h.line)
    /\ h' = [h EXCEPT !.s = ParseStep(h.s, h.line), !.before = h.s.i]
    /\ UNCHANGED <<settings, pc, run, exit, files, ledger, database, queue, cur, counts>>

\* The loop condition is false: parse_line builds the record and returns.
ParseReturn ==
    /\ pc = "loop"
    /\ h.s.i > Len(h.line)
    /\ pc' = "returned"
    /\ UNCHANGED <<settings, run, exit, files, ledger, database, queue, cur, counts, h>>

NextCursor ==
    \/ ParseIteration
    \/ ParseReturn

SpecCursor == InitCursor /\ [][NextCursor]_vars
SpecCursorFair == SpecCursor /\ WF_vars(NextCursor)

(***************************************************************************)
(* The file names on their own: process_log_file writes the JSONL of one   *)
(* log <input root>/<server>/F, then one iteration of                      *)
(* persist_all_jsonl_files derives server_name and source_file from the    *)
(* JSONL path and passes them on.  F is any name of components separated   *)
(* by dots whose last component is "log".                                  *)
(***************************************************************************)
MaxNameParts == 4

NameParts == {"quality", "app", "2026-01-26", "log"}
LogNames ==
    {name \in UNION {[1 .. n -> NameParts] : n \in 2 .. MaxNameParts} :
        name[Len(name)] = "log"}
NamedLogs == {[server |-> server, name |-> name] : server \in {"s1", "s2"}, name \in LogNames}

InitNames ==
    /\ settings = CompleteSettings
    /\ pc = "named"
    /\ run = 1
    /\ exit = [kind |-> "running", at |-> ""]
    /\ logArchive = {}
    /\ outputRoot = EmptyDict
    /\ jsonlArchive = {}
    /\ processed_files = EmptyDict
    /\ persisted_jsonl_files = EmptyDict
    /\ store = EmptyDict
    /\ queue = <<>>
    /\ cur = NoFile
    /\ counts = ZeroCounts
    /\ session = <<>>
    /\ persisted_rows = 0
    /\ \E log \in NamedLogs :
          /\ inputRoot = {log}
          /\ h = [log |-> log, args |-> None]

\* process_log_file on the log: the JSONL is written, the log is archived.
WriteNamedJsonl ==
    /\ pc = "named"
    /\ outputRoot' = DictSet(outputRoot, output_path_of(h.log),
                             JsonLines(ip_records(parse_file(<<LineFull>>))))
    /\ inputRoot' = {}
    /\ logArchive' = {h.log}
    /\ pc' = "written"
    /\ UNCHANGED <<settings, run, exit, jsonlArchive, ledger, database, queue, cur, counts,
                   h>>

\* One iteration of persist_all_jsonl_files on the JSONL, nothing failing:
\* server_name and source_file go to persist_records and mark_jsonl_persisted.
PersistNamedJsonl ==
    /\ pc = "written"
    /\ \E j \in DOMAIN outputRoot :
          LET server_name == j.server
              source_file == source_file_of(j.name)
              all_scores == AllScores(read_jsonl(outputRoot[j]), server_name, source_file)
          IN /\ store' = AddRows(store, all_scores)
             /\ persisted_rows' = Len(all_scores)
             /\ persisted_jsonl_files' =
                    mark_jsonl_persisted(persisted_jsonl_files, j, server_name, source_file,
                                         Len(all_scores), run)
             /\ outputRoot' = [q \in DOMAIN outputRoot \ {j} |-> outputRoot[q]]
             /\ jsonlArchive' = jsonlArchive \cup {j}
             /\ h' = [h EXCEPT !.args = Some([server_name |-> server_name,
                                              source_file |-> source_file])]
    /\ pc' = "persisted"
    /\ UNCHANGED <<settings, run, exit, inputRoot, logArchive, processed_files, queue, cur,
                   counts, session>>

NextNames ==
    \/ WriteNamedJsonl
    \/ PersistNamedJsonl

SpecNames == InitNames /\ [][NextNames]_vars

(***************************************************************************)
(* Properties.                                                             *)
(***************************************************************************)
Range(q) == {q[i] : i \in DOMAIN q}

\* The ledger key of a log path.
KeyOf(p) == <<p.server, p.name>>

\* The states of one call of process_all_logs, its return included.
InProcessCall == pc \in {"parse", "write", "archive_move", "archive_mark", "scan_jsonl"}

\* C1: when a run of the whole pipeline follows a run that completed without
\* a failure, with no file delivered in between, the second run inserts no
\* fact row (its counter is zero and the store is the one the first run left)
\* and the ProcessedFile and PersistedJsonl tables are the ones the first run
\* left.
C1_SecondRunChangesNothing ==
    (pc = "summary" /\ h.prev.valid) =>
        /\ counts.total_rows_inserted = 0
        /\ store = h.prev.st
        /\ processed_files = h.prev.pf
        /\ persisted_jsonl_files = h.prev.pj

\* The second run reaches its summary after a first run that archived log
\* files and committed rows.
C1_Witness ==
    /\ pc = "summary"
    /\ h.prev.valid
    /\ run = 2
    /\ store # EmptyDict
    /\ DOMAIN processed_files # {}
    /\ DOMAIN persisted_jsonl_files # {}

\* C2: over any sequence of runs, kills and swallowed failures, no fact row
\* of a JSONL file is committed to the store more than once.
C2_RowsCommittedAtMostOnce == \A r \in DOMAIN store : store[r] <= 1

\* C3: a JSONL file whose persist_records call raised is not moved to the
\* JSONL archive by that call, has no PersistedJsonl entry and stays in the
\* output root; the scan of the next persist_all_jsonl_files call lists it.
C3_State ==
    \A j \in h.failedPersist :
        /\ j \notin h.movedJsonl
        /\ j \notin DOMAIN persisted_jsonl_files
        /\ j \in DOMAIN outputRoot

C3_FailedPersistStaysRetriable ==
    [][/\ C3_State'
       /\ (pc = "scan_jsonl" /\ pc' # "idle") => h.failedPersist \subseteq Range(queue')]_vars

\* persist_records has raised for a JSONL file, and the call went on.
C3_Witness ==
    /\ h.failedPersist # {}
    /\ pc = "summary"
    /\ h.movedJsonl # {}

\* C4: persist_records is all-or-nothing: when it has returned, the store is
\* the store at the call plus every row expanded from the batch, and the
\* value returned is the number of those rows; when it has raised, the store
\* is the store at the call, and the caller has seen the exception.
C4_AllOrNothing ==
    /\ (h.persistOutcome = "returned" /\ pc = "mark") =>
           LET all_scores == AllScoresOf(cur, outputRoot[cur])
           IN /\ store = AddRows(h.store0, all_scores)
              /\ persisted_rows = Len(all_scores)
    /\ h.persistOutcome = "raised" =>
           /\ store = h.store0
           /\ h.failedPersist # {}
    /\ pc = "rollback" => store = h.store0

\* persist_records raised after rows had been flushed, into a store that
\* already held the rows of another batch.
C4_Witness ==
    /\ h.persistOutcome = "raised"
    /\ h.store0 # EmptyDict

\* C5: one call of process_all_logs attempts every log file of its scan
\* exactly once, whichever of them failed, and returns to its caller: no
\* exception of a file leaves it.
C5_EveryFileAttemptedOnce ==
    /\ pc = "scan_jsonl" =>
           \A p \in Logs : h.attempts[p] = IF p \in h.scanned THEN 1 ELSE 0
    /\ InProcessCall => \A p \in Logs : h.attempts[p] <= 1
    /\ exit.at # "process_all_logs"

\* The call has returned after the first file of its scan failed and a later
\* one was attempted.
C5_Witness ==
    /\ pc = "scan_jsonl"
    /\ \E i, k \in DOMAIN SortedLogs :
          /\ i < k
          /\ SortedLogs[i] \in h.failedLogs
          /\ SortedLogs[k] \in h.scanned
          /\ h.attempts[SortedLogs[k]] = 1

\* The ProcessedFile entry of a log path is the one the call started with.
EntryUnchanged(p) ==
    /\ KeyOf(p) \in DOMAIN processed_files <=> KeyOf(p) \in DOMAIN h.ledger0
    /\ KeyOf(p) \in DOMAIN processed_files =>
           processed_files[KeyOf(p)] = h.ledger0[KeyOf(p)]

\* C6: a log file whose process_log_file call threw stays in the input root,
\* is not moved to the log archive by that call and gets no ProcessedFile
\* entry from it; the scan of the next process_all_logs call lists it.
C6_State ==
    \A p \in h.failedLogs :
        /\ p \in inputRoot
        /\ InProcessCall => (p \notin h.movedLogs /\ EntryUnchanged(p))

C6_FailedLogStaysRetriable ==
    [][/\ C6_State'
       /\ (pc = "scan_logs" /\ pc' # "idle") => h.failedLogs \subseteq Range(queue')]_vars

\* The next run scans the input root after a run in which a file failed.
C6_Witness ==
    /\ pc = "scan_logs"
    /\ run = 2
    /\ h.failedLogs # {}

\* C7: a log file without an IP record, once process_log_file has parsed it
\* and returned, has been moved to the log archive and is no longer in the
\* input root; the call returned 0 and wrote no JSONL file.
C7_EmptyFileArchived ==
    InProcessCall =>
        \A p \in Logs :
            (/\ IpRecordsOf(p) = <<>>
             /\ h.attempts[p] = 1
             /\ p \notin h.failedLogs
             /\ (queue = <<>> \/ Head(queue) # p)) =>
                /\ h.returned[p] = Some(0)
                /\ p \in h.movedLogs
                /\ p \in logArchive
                /\ p \notin inputRoot
                /\ output_path_of(p) \notin h.written
                /\ output_path_of(p) \notin DOMAIN outputRoot

\* process_log_file has returned 0 for the file without an IP record.
C7_Witness ==
    /\ InProcessCall
    /\ h.returned[LogB] = Some(0)
    /\ LogB \in logArchive

\* The entry archive_log_file writes for a log path: the date found in its
\* name and the digest of its bytes.
HasEntry(p, hashed) ==
    /\ KeyOf(p) \in DOMAIN processed_files
    /\ processed_files[KeyOf(p)].file_date = search_date(p.name)
    /\ processed_files[KeyOf(p)].hash_sha256 =
           IF hashed THEN Some(sha256(Content(p))) ELSE None

\* C8 as stated: every log file in the log archive (the one archive_log_file
\* has just moved and not yet recorded apart) has a ProcessedFile entry with
\* the date of its name and the hash of its bytes.
C8_ArchivedImpliesLedgered ==
    \A p \in logArchive : (pc = "archive_mark" /\ cur = p) \/ HasEntry(p, TRUE)

\* C8, amended: a log file has its ProcessedFile entry, with the date of its
\* name, once the mark_file_processed call of its archive_log_file has
\* succeeded; the entry carries the hash of the archived bytes when the
\* hashing succeeded and no hash when it failed.
C8_LedgeredWhenMarked ==
    \A p \in Logs :
        /\ h.lastArchive[p] = "marked" => (p \in logArchive /\ HasEntry(p, TRUE))
        /\ h.lastArchive[p] = "marked_nohash" => (p \in logArchive /\ HasEntry(p, FALSE))

\* Files have been archived with each outcome: recorded with a hash and
\* recorded without one.
C8_Witness ==
    \E p, q \in Logs :
        /\ h.lastArchive[p] = "marked"
        /\ h.lastArchive[q] = "marked_nohash"

\* C9: process_all_logs neither parses nor rewrites the JSONL of a log file
\* whose (server, filename) has a ProcessedFile entry.
C9_LedgeredFileNotReparsed ==
    pc \in {"write", "archive_move"} => KeyOf(cur) \notin DOMAIN processed_files

\* C10: one call of collect_from_servers attempts every configured server,
\* in order, whichever of them failed, and returns to its caller: no
\* exception of a server leaves it.
C10_EveryServerAttempted ==
    /\ pc = "scan_logs" =>
           h.attemptedServers =
               [i \in DOMAIN settings.ssh_servers |-> settings.ssh_servers[i].name]
    /\ exit.at # "collect_from_servers"

\* The call has returned after its first server failed.
C10_Witness ==
    /\ pc = "scan_logs"
    /\ settings.ssh_servers[1].name \in h.failedServers
    /\ Len(h.attemptedServers) = 2

\* A remote entry the collector is to download: a .log name whose date is
\* on or before yesterday.
Eligible(filename) ==
    /\ EndsWithLog(filename)
    /\ extract_file_date(filename) # None
    /\ OnOrBeforeThreshold(extract_file_date(filename))

C13_EligibleFilesDownloaded ==
    pc = "scan_logs" =>
        \A i \in DOMAIN h.attemptedServers :
            LET server == settings.ssh_servers[i]
                listing == RemoteListing(server)
            IN server.name \notin h.unreachableServers =>
                   \A k \in DOMAIN listing :
                       LET q == LocalPath(server, listing[k])
                       IN (/\ Eligible(listing[k])
                           /\ KeyOf(q) \notin DOMAIN processed_files
                           /\ q \notin h.input0
                           /\ q \notin logArchive) => q \in inputRoot

ConfigError ==
    \/ settings.ssh_servers = <<>>
    \/ settings.ssh_user = None
    \/ settings.ssh_password = None

\* C15: with no server configured, or with servers but no SSH user or no
\* SSH password, collect_from_servers does not raise, attempts no
\* connection and returns 0.
C15_ConfigErrorReturnsZero ==
    ConfigError =>
        /\ exit # [kind |-> "raised", at |-> "collect_from_servers:139"]
        /\ h.attemptedServers = <<>>
        /\ pc = "scan_logs" => counts.downloaded = 0

\* C16: main never ends by an exception; every run that ends returns.
C16_MainAlwaysReturns == exit.kind # "raised"

\* C17: when persist_all_jsonl_files has returned, every JSONL file of its
\* scan has been attempted, once and in the order of the scan, whatever
\* failed on the files before it.
C17_EveryJsonlAttempted == pc = "summary" => h.jattempted = h.jscanned

\* The call has returned after persist_records raised on the first JSONL of
\* the scan, and the JSONL after it was persisted and archived.
C17_Witness ==
    /\ pc = "summary"
    /\ Len(h.jscanned) >= 2
    /\ h.jscanned[1] \in h.failedPersist
    /\ h.jscanned[2] \in h.movedJsonl

\* C18: a file is reported as processed exactly when mark_file_processed has
\* been performed for that very (server, filename) pair, and a JSONL is
\* reported as persisted exactly when mark_jsonl_persisted has been
\* performed for that very path.
C18_ProcessedIffMarked ==
    /\ \A key \in LedgerKeys : h.fileLookups[key] <=> key \in h.markedFiles
    /\ \A jsonl_path \in LedgerJsonls :
          h.jsonlLookups[jsonl_path] <=> jsonl_path \in h.markedJsonl

\* A file is marked for one server and not for another server with the same
\* filename, and one JSONL path is marked and another is not.
C18_Witness ==
    /\ <<ServerS1.name, LogA.name>> \in h.markedFiles
    /\ <<ServerS2.name, LogA.name>> \notin h.markedFiles
    /\ h.markedJsonl # {}
    /\ h.markedJsonl # LedgerJsonls

\* C19: a mark on a key that already has an entry keeps the entry's first
\* timestamp, sets every other field to the values of the call, and leaves
\* the table with the same keys, one entry each.
C19_UpsertKeepsFirstTimestamp ==
    /\ h.lastFile.existed =>
          LET l == h.lastFile
          IN /\ DOMAIN processed_files = DOMAIN l.before
             /\ processed_files[l.key] =
                    [file_date |-> l.file_date,
                     first_seen_at |-> l.before[l.key].first_seen_at,
                     last_processed_at |-> l.now, hash_sha256 |-> l.hash_sha256]
             /\ \A k \in DOMAIN l.before \ {l.key} : processed_files[k] = l.before[k]
    /\ h.lastJsonl.existed =>
          LET l == h.lastJsonl
          IN /\ DOMAIN persisted_jsonl_files = DOMAIN l.before
             /\ persisted_jsonl_files[l.key] =
                    [server_name |-> l.server_name, source_file |-> l.source_file,
                     rows_inserted |-> l.rows_inserted,
                     first_persisted_at |-> l.before[l.key].first_persisted_at,
                     last_persisted_at |-> l.now]
             /\ \A k \in DOMAIN l.before \ {l.key} : persisted_jsonl_files[k] = l.before[k]

\* Both tables have had a mark on an existing key, with values that differ
\* from those of the entry it found.
C19_Witness ==
    /\ h.lastFile.existed
    /\ h.lastFile.before[h.lastFile.key].file_date # h.lastFile.file_date
    /\ h.lastFile.before[h.lastFile.key].hash_sha256 # h.lastFile.hash_sha256
    /\ h.lastJsonl.existed
    /\ h.lastJsonl.before[h.lastJsonl.key].rows_inserted # h.lastJsonl.rows_inserted
    /\ h.lastJsonl.before[h.lastJsonl.key].server_name # h.lastJsonl.server_name

\* The scalar numeric keys of a line and the record field each one sets.
NumericField ==
    [k \in {"FaceSampleId", "Face", "IrisSampleId", "LeftEye", "RightEye"} |->
        CASE k = "FaceSampleId" -> "face_sample_id" [] k = "Face" -> "face_score"
          [] k = "IrisSampleId" -> "iris_sample_id" [] k = "LeftEye" -> "left_eye_score"
          [] k = "RightEye" -> "right_eye_score"]

RecordFields ==
    {"rq_type", "re_id", "status_code", "face_sample_id", "face_sample_type",
     "face_score", "iris_sample_id", "left_eye_score", "right_eye_score", "raw",
     "extra", "fingerprint_samples"}

\* The values a line gives for a key, in order.
ValuesOf(line, keys) ==
    LET ts == SelectSeq(line, LAMBDA t : t.eq /\ t.key \in keys)
    IN [n \in DOMAIN ts |-> ts[n].value]

\* C20: parse_line returns a record for every line; a numeric key whose
\* tokens are all non-integers leaves its field None (for a finger, its
\* score None; for nbpk, the nbpk of every finger None), and the n-th
\* FingerprintSampleId token gives the n-th sample, with sample_id -1 when
\* the token is no integer.
C20_ParseLineTotal ==
    pc = "parsed" =>
        LET r == h.record[1]
            ids == ValuesOf(h.line, {"FingerprintSampleId"})
        IN /\ DOMAIN r = RecordFields
           /\ \A k \in DOMAIN NumericField :
                 (\A n \in DOMAIN ValuesOf(h.line, {k}) :
                      ValuesOf(h.line, {k})[n] \notin DOMAIN IntValue)
                     => r[NumericField[k]] = None
           /\ Len(r.fingerprint_samples) = Len(ids)
           /\ \A n \in DOMAIN ids :
                 r.fingerprint_samples[n].sample_id =
                     IF ids[n] \in DOMAIN IntValue THEN IntValue[ids[n]] ELSE 0 - 1
           /\ \A n \in DOMAIN r.fingerprint_samples, k \in DOMAIN finger_keys :
                 (/\ finger_keys[k] \in DOMAIN r.fingerprint_samples[n].values
                  /\ \A m \in DOMAIN ValuesOf(h.line, {k}) :
                        ValuesOf(h.line, {k})[m] \notin DOMAIN IntValue)
                     => r.fingerprint_samples[n].values[finger_keys[k]].score = None
           /\ \A n \in DOMAIN r.fingerprint_samples :
                 (\A m \in DOMAIN ValuesOf(h.line, {"nbpk"}) :
                      ValuesOf(h.line, {"nbpk"})[m] \notin DOMAIN IntValue)
                     => \A f \in DOMAIN r.fingerprint_samples[n].values :
                            r.fingerprint_samples[n].values[f].nbpk = None

\* A line with an unparsable FingerprintSampleId, a non-integer finger
\* score and a non-integer nbpk has been parsed.
C20_Witness ==
    /\ pc = "parsed"
    /\ h.line = <<Tok("FingerprintSampleId", "abc"), Tok("RightThumb", "abc"),
                  Tok("nbpk", "abc")>>
    /\ h.record[1].fingerprint_samples[1].sample_id = 0 - 1
    /\ h.record[1].fingerprint_samples[1].values["right_thumb"] =
           [score |-> None, nbpk |-> None]

\* Positions of a line: the key=value tokens with a key of a set, the number
\* of FingerprintSampleId tokens up to a position, the least and the
\* greatest of a non-empty set of positions.
At(line, keys) == {i \in DOMAIN line : line[i].eq /\ line[i].key \in keys}
GroupAt(line, i) == Cardinality({j \in At(line, {"FingerprintSampleId"}) : j <= i})
First(positions) == CHOOSE i \in positions : \A j \in positions : i <= j
Last(positions) == CHOOSE i \in positions : \A j \in positions : j <= i

\* C21: the record's identity is the value of the first ReId token, or the
\* empty string without one; its status code is the integer of the last
\* later ReId token that is a negative integer, or None without one.
C21_IdentityAndStatus ==
    pc = "parsed" =>
        LET r == h.record[1]
            ids == At(h.line, {"ReId"})
            negative == {i \in ids : /\ i # First(ids)
                                     /\ h.line[i].value \in DOMAIN IntValue
                                     /\ IntValue[h.line[i].value] < 0}
        IN /\ r.re_id = IF ids = {} THEN "" ELSE h.line[First(ids)].value
           /\ r.status_code = IF negative = {} THEN None
                              ELSE Some(IntValue[h.line[Last(negative)].value])

\* A line with an identity, two negative later ReId tokens and a
\* non-negative one after them has been parsed: the last negative one is
\* the status code.
C21_Witness ==
    /\ pc = "parsed"
    /\ h.line = <<Tok("ReId", "123"), Tok("ReId", "-7"), Tok("ReId", "-5"),
                  Tok("ReId", "9")>>
    /\ h.record[1].re_id = "123"
    /\ h.record[1].status_code = Some(0 - 5)

\* C22: fingerprint_samples has one group per FingerprintSampleId token, in
\* the order of the tokens, each with the id of its token; the fingers of
\* the n-th group are those of the finger tokens between the n-th
\* FingerprintSampleId token and the next one.
C22_OneGroupPerToken ==
    pc = "parsed" =>
        LET r == h.record[1]
            ids == ValuesOf(h.line, {"FingerprintSampleId"})
        IN /\ Len(r.fingerprint_samples) = Len(ids)
           /\ \A n \in DOMAIN ids :
                 /\ r.fingerprint_samples[n].sample_id = int_or(ids[n], Some(0 - 1))[1]
                 /\ DOMAIN r.fingerprint_samples[n].values =
                        {finger_keys[h.line[i].key] :
                             i \in {j \in At(h.line, DOMAIN finger_keys) :
                                        GroupAt(h.line, j) = n}}

\* Two FingerprintSampleId tokens with the same id, each followed by a
\* finger, have been parsed into two groups with one finger each.
C22_Witness ==
    /\ pc = "parsed"
    /\ h.line = <<Tok("FingerprintSampleId", "1"), Tok("RightThumb", "84"),
                  Tok("FingerprintSampleId", "1"), Tok("LeftIndex", "9")>>
    /\ Len(h.record[1].fingerprint_samples) = 2
    /\ DOMAIN h.record[1].fingerprint_samples[1].values = {"right_thumb"}
    /\ DOMAIN h.record[1].fingerprint_samples[2].values = {"left_index"}

\* The line without the finger tokens that come before its first
\* FingerprintSampleId token.
RECURSIVE WithoutEarlyFingers(_)
WithoutEarlyFingers(line) ==
    IF line = <<>> THEN <<>>
    ELSE IF Head(line).eq /\ Head(line).key = "FingerprintSampleId" THEN line
    ELSE IF Head(line).eq /\ Head(line).key \in DOMAIN finger_keys
         THEN WithoutEarlyFingers(Tail(line))
    ELSE <<Head(line)>> \o WithoutEarlyFingers(Tail(line))

\* C23: a finger token before any FingerprintSampleId token is dropped: the
\* record is the one of the line without that token (but for raw), no
\* finger name is a key of extra, and a line without FingerprintSampleId
\* token gives no group.
C23_EarlyFingerDropped ==
    pc = "parsed" =>
        LET r == h.record[1]
        IN /\ [r EXCEPT !.raw = None] =
                  [parse_line(WithoutEarlyFingers(h.line)) EXCEPT !.raw = None]
           /\ DOMAIN r.extra \cap DOMAIN finger_keys = {}
           /\ At(h.line, {"FingerprintSampleId"}) = {} => r.fingerprint_samples = <<>>

\* A finger token and its nbpk, then a FingerprintSampleId token, have been
\* parsed: one group without fingers, nothing in extra.
C23_Witness ==
    /\ pc = "parsed"
    /\ h.line = <<Tok("RightThumb", "84"), Tok("nbpk", "9"),
                  Tok("FingerprintSampleId", "1")>>
    /\ Len(h.record[1].fingerprint_samples) = 1
    /\ h.record[1].fingerprint_samples[1].values = EmptyDict
    /\ h.record[1].extra = EmptyDict

\* The finger tokens of a line inside a group, and the line without the nbpk
\* tokens that do not come right after one of them.
InGroupFingers(line) == {i \in At(line, DOMAIN finger_keys) : GroupAt(line, i) >= 1}
StrayNbpk(line) == {i \in At(line, {"nbpk"}) : i - 1 \notin InGroupFingers(line)}
RECURSIVE Without(_, _, _)
Without(line, positions, i) ==
    IF i > Len(line) THEN <<>>
    ELSE (IF i \in positions THEN <<>> ELSE <<line[i]>>) \o Without(line, positions, i + 1)

\* C24: the entry of a finger in a group has the minutiae count of the
\* token right after the finger's last token in that group when that token
\* is an nbpk token, and None otherwise; an nbpk token elsewhere is dropped:
\* the record is the one of the line without it (but for raw), and nbpk is
\* no key of extra.
C24_NbpkLookahead ==
    pc = "parsed" =>
        LET r == h.record[1]
        IN /\ \A n \in DOMAIN r.fingerprint_samples :
                 \A f \in DOMAIN r.fingerprint_samples[n].values :
                     LET i == Last({j \in InGroupFingers(h.line) :
                                        /\ GroupAt(h.line, j) = n
                                        /\ finger_keys[h.line[j].key] = f})
                         followed == i + 1 \in At(h.line, {"nbpk"})
                     IN r.fingerprint_samples[n].values[f] =
                            [score |-> int_or(h.line[i].value, None),
                             nbpk |-> IF followed
                                      THEN int_or(h.line[i + 1].value, None)
                                      ELSE None]
           /\ [r EXCEPT !.raw = None] =
                  [parse_line(Without(h.line, StrayNbpk(h.line), 1)) EXCEPT !.raw = None]
           /\ "nbpk" \notin DOMAIN r.extra

\* A group with a finger followed by two nbpk tokens has been parsed: the
\* first is the finger's count, the second is dropped.
C24_Witness ==
    /\ pc = "parsed"
    /\ h.line = <<Tok("FingerprintSampleId", "1"), Tok("RightThumb", "84"),
                  Tok("nbpk", "9"), Tok("nbpk", "9")>>
    /\ h.record[1].fingerprint_samples[1].values["right_thumb"] =
           [score |-> Some(84), nbpk |-> Some(9)]
    /\ h.record[1].extra = EmptyDict

\* The value of the first SampleType token of a line in group n (0: before
\* every group), if there is one.
FirstSampleType(line, n) ==
    LET positions == {i \in At(line, {"SampleType"}) : GroupAt(line, i) = n}
    IN IF positions = {} THEN None ELSE Some(line[First(positions)].value)

\* C25: the face sample type is the value of the first SampleType token
\* before every FingerprintSampleId token, and the sample type of a group is
\* the value of the first SampleType token inside that group; None without
\* such a token.
C25_SampleTypeWrittenOnce ==
    pc = "parsed" =>
        LET r == h.record[1]
        IN /\ r.face_sample_type = FirstSampleType(h.line, 0)
           /\ \A n \in DOMAIN r.fingerprint_samples :
                 r.fingerprint_samples[n].sample_type = FirstSampleType(h.line, n)

\* A SampleType token, a FingerprintSampleId token and two more SampleType
\* tokens have been parsed: the first is the face's, the second the
\* group's, the third is ignored.
C25_Witness ==
    /\ pc = "parsed"
    /\ h.line = <<Tok("SampleType", "STILL"), Tok("FingerprintSampleId", "1"),
                  Tok("SampleType", "LIVE"), Tok("SampleType", "STILL")>>
    /\ h.record[1].face_sample_type = Some("STILL")
    /\ h.record[1].fingerprint_samples[1].sample_type = Some("LIVE")

\* The keys the parser handles itself, as the format lists them.
FormatKeys ==
    {"RqType", "ReId", "FaceSampleId", "SampleType", "Face", "IrisSampleId", "LeftEye",
     "RightEye", "FingerprintSampleId", "nbpk", "RightThumb", "RightIndex",
     "RightMiddle", "RightRing", "RightLittle", "LeftThumb", "LeftIndex", "LeftMiddle",
     "LeftRing", "LeftLittle"}

\* C26: the keys of extra are the keys of the key=value tokens outside the
\* handled set, each with the value of its last token; a handled key and a
\* token without = give nothing.
C26_ExtraIsUnhandledKeys ==
    pc = "parsed" =>
        LET r == h.record[1]
            others == {i \in DOMAIN h.line : h.line[i].eq /\ h.line[i].key \notin FormatKeys}
        IN /\ DOMAIN r.extra = {h.line[i].key : i \in others}
           /\ \A k \in DOMAIN r.extra :
                 r.extra[k] = h.line[Last({i \in others : h.line[i].key = k})].value

\* A line with a key outside the handled set twice, the same word without =
\* and a handled key has been parsed: extra has the key with its last value.
C26_Witness ==
    /\ pc = "parsed"
    /\ h.line = <<Tok("Foo", "1"), Word("Foo"), Tok("Face", "200"), Tok("Foo", "2")>>
    /\ DOMAIN h.record[1].extra = {"Foo"}
    /\ h.record[1].extra["Foo"] = "2"

\* The number of rows of a modality, and the keys with an integer token.
CountRows(rows, modality) == Cardinality({i \in DOMAIN rows : rows[i].modality = modality})
WithInteger(line, keys) ==
    {line[i].key : i \in {j \in At(line, keys) : line[j].value \in DOMAIN IntValue}}
IpLineExpanded == pc = "rows" /\ At(h.line, {"RqType"}) # {} /\ h.record[1].rq_type = "IP"

\* C27: for a line with RqType=IP, the expansion of its record has one FACE
\* row iff the line has a Face token, 0 or 2 IRIS rows, and as many FINGER
\* rows as the line has finger tokens inside fingerprint groups.
C27_RowsMatchTokens ==
    IpLineExpanded =>
        /\ CountRows(h.rows[1], "FACE") = IF At(h.line, {"Face"}) # {} THEN 1 ELSE 0
        /\ CountRows(h.rows[1], "IRIS") \in {0, 2}
        /\ CountRows(h.rows[1], "FINGER") = Cardinality(InGroupFingers(h.line))

\* C27, amended: for a line with RqType=IP, the expansion of its record has
\* one FACE row iff the line has a Face token with an integer value, one
\* IRIS row for each of LeftEye and RightEye that has a token with an
\* integer value, and one FINGER row for each finger name of each
\* fingerprint group.
C27_RowsMatchFields ==
    IpLineExpanded =>
        /\ CountRows(h.rows[1], "FACE") = Cardinality(WithInteger(h.line, {"Face"}))
        /\ CountRows(h.rows[1], "IRIS") =
               Cardinality(WithInteger(h.line, {"LeftEye", "RightEye"}))
        /\ CountRows(h.rows[1], "FINGER") =
               Cardinality({<<GroupAt(h.line, i), finger_keys[h.line[i].key]>> :
                                i \in InGroupFingers(h.line)})

\* An IP line with one eye, a Face token that is no integer and a finger
\* in a group has been expanded: one IRIS row, no FACE row, one FINGER row.
C27_Witness ==
    /\ pc = "rows"
    /\ h.line = <<Tok("RqType", "IP"), Tok("LeftEye", "84"), Tok("Face", "abc"),
                  Tok("FingerprintSampleId", "1"), Tok("RightThumb", "84")>>
    /\ CountRows(h.rows[1], "FACE") = 0
    /\ CountRows(h.rows[1], "IRIS") = 1
    /\ CountRows(h.rows[1], "FINGER") = 1

\* The number of finger entries with a canonical name, over the samples.
RECURSIVE RecognizedFingers(_)
RecognizedFingers(samples) ==
    IF samples = <<>> THEN 0
    ELSE Cardinality(DOMAIN Head(samples).values \cap DOMAIN FINGER_CHANNEL_MAP)
         + RecognizedFingers(Tail(samples))

\* C28: the expansion of a record has at most one FACE row and at most two
\* IRIS rows, one FINGER row per finger with a canonical name in each
\* sample (at most 10 per sample), no row at all for a record without face
\* score, eye score and finger entry, and every row carries the record's
\* re_id, status code, request type and raw line.
C28_RowsOfARecord ==
    pc = "rows" =>
        LET r == h.record[1]
            rows == h.rows[1]
        IN /\ CountRows(rows, "FACE") <= 1
           /\ CountRows(rows, "IRIS") <= 2
           /\ CountRows(rows, "FINGER") = RecognizedFingers(r.fingerprint_samples)
           /\ CountRows(rows, "FINGER") <= 10 * Len(r.fingerprint_samples)
           /\ Len(rows) = CountRows(rows, "FACE") + CountRows(rows, "IRIS")
                          + CountRows(rows, "FINGER")
           /\ (/\ r.face_score = None
               /\ r.left_eye_score = None
               /\ r.right_eye_score = None
               /\ \A n \in DOMAIN r.fingerprint_samples :
                     r.fingerprint_samples[n].values = EmptyDict) => rows = <<>>
           /\ h.line = <<Tok("RqType", "IP"), Tok("ReId", "9"), Tok("ReId", "-7")>> =>
                  /\ r.re_id = "9"
                  /\ r.status_code = Some(0 - 7)
                  /\ rows = <<>>
           /\ \A i \in DOMAIN rows :
                 /\ rows[i].re_id = r.re_id
                 /\ rows[i].re_code = r.status_code
                 /\ rows[i].rq_type = r.rq_type
                 /\ rows[i].raw_line = r.raw

\* A record whose sample has a canonical finger name and another name has
\* been expanded into the one FINGER row of the canonical name.
C28_Witness ==
    /\ pc = "rows"
    /\ Len(h.record[1].fingerprint_samples) = 1
    /\ DOMAIN h.record[1].fingerprint_samples[1].values = {"right_thumb", "thumb"}
    /\ Len(h.rows[1]) = 1
    /\ h.rows[1][1].channel = "RIGHT_THUMB"
    /\ h.rows[1][1].re_id = h.record[1].re_id

\* C29: for a record parsed from a line whose request type is IP,
\* _dict_to_record(_record_to_dict(record)) is the record, field by field.
C29_RoundTrip ==
    (pc = "round_trip" /\ h.record[1].rq_type = "IP") => h.back[1] = h.record[1]

\* An IP record with a face score of 0, a fingerprint group with a finger
\* and an extra key has been through the round trip.
C29_Witness ==
    /\ pc = "round_trip"
    /\ h.line = <<Tok("RqType", "IP"), Tok("Face", "0"), Tok("FingerprintSampleId", "1"),
                  Tok("RightThumb", "84"), Tok("Foo", "1")>>
    /\ h.back[1].face_score = Some(0)
    /\ h.back[1].extra = h.record[1].extra
    /\ h.back[1].fingerprint_samples = h.record[1].fingerprint_samples

\* C30: a line with RqType, ReId, FaceSampleId, SampleType, Face,
\* IrisSampleId, LeftEye and RightEye tokens with integer values and no
\* FingerprintSampleId gives a record with those values in its fields (the
\* ReId as a string), and the record expands to three rows: FACE, LEFT_EYE,
\* RIGHT_EYE.
C30_FullLine ==
    (h.line \in FullLines /\ pc \in {"parsed", "rows"}) =>
        LET r == h.record[1]
        IN /\ r.rq_type = h.line[1].value
           /\ r.re_id = h.line[2].value
           /\ r.face_sample_id = Some(IntValue[h.line[3].value])
           /\ r.face_sample_type = Some(h.line[4].value)
           /\ r.face_score = Some(IntValue[h.line[5].value])
           /\ r.iris_sample_id = Some(IntValue[h.line[6].value])
           /\ r.left_eye_score = Some(IntValue[h.line[7].value])
           /\ r.right_eye_score = Some(IntValue[h.line[8].value])
           /\ pc = "rows" =>
                  [i \in DOMAIN h.rows[1] |-> h.rows[1][i].channel] =
                      <<"FACE", "LEFT_EYE", "RIGHT_EYE">>

\* The line of the format's example has been parsed and expanded.
C30_Witness ==
    /\ pc = "rows"
    /\ h.line = LineFull
    /\ h.record[1].re_id = "123"
    /\ h.record[1].face_score = Some(200)
    /\ Len(h.rows[1]) = 3

\* The positions of the lines of a log file that are not blank and whose
\* parsed request type is "IP".
IpLinePositions(lines) ==
    {i \in DOMAIN lines : lines[i] # <<>> /\ parse_line(lines[i]).rq_type = "IP"}

\* The JSON objects of those lines, in the order of the log.
ExpectedObjects ==
    [p \in Logs |->
        LET lines == Content(p)
            at == IpLinePositions(lines)
            nth(k) == CHOOSE i \in at : Cardinality({j \in at : j <= i}) = k
        IN [k \in 1 .. Cardinality(at) |->
                record_to_dict(parse_line(lines[nth(k)]))]]

\* C31: for a log with at least one IP line, the JSONL process_log_file has
\* written holds exactly one JSON object per non-blank line whose parsed
\* request type is "IP", in the order of the log and nothing for the other
\* lines, and the call returns the number of those objects.
C31_JsonlHoldsIpLines ==
    /\ (pc \in {"archive_move", "archive_mark"} /\ ExpectedObjects[cur] # <<>>) =>
           /\ output_path_of(cur) \in DOMAIN outputRoot
           /\ outputRoot[output_path_of(cur)] = ExpectedObjects[cur]
    /\ \A p \in Logs :
           (h.returned[p] # None /\ ExpectedObjects[p] # <<>>) =>
               h.returned[p] = Some(Len(ExpectedObjects[p]))

\* process_log_file has returned 2 for the log with a status line, a blank
\* line, a line of another request type and a full line, and its JSONL holds
\* the two objects of the IP lines.
C31_Witness ==
    /\ pc = "parse"
    /\ h.returned[LogA] = Some(2)
    /\ output_path_of(LogA) \in DOMAIN outputRoot
    /\ Len(outputRoot[output_path_of(LogA)]) = 2
    /\ outputRoot[output_path_of(LogA)][2] = record_to_dict(parse_line(LineFull))

\* C32: in persist_all_jsonl_files a JSONL whose path has a PersistedJsonl
\* entry is not read and persist_records is not called for it, whatever the
\* file holds now: the iteration goes to archive_jsonl_file, and in a call
\* where nothing fails every JSONL the loop is done with is in the archive.
C32_LedgeredJsonlOnlyArchived ==
    /\ pc \in {"persist", "commit", "rollback", "mark"} =>
           ~is_jsonl_already_persisted(persisted_jsonl_files, cur)
    /\ (pc = "archive_jsonl" /\ h.persistOutcome = "none") => session = <<>>
    /\ (h.clean /\ pc \in {"check", "persist", "commit", "rollback", "mark",
                           "archive_jsonl", "summary"}) =>
           \A j \in Range(h.jattempted) \ {cur} :
               j \in h.movedJsonl /\ j \in jsonlArchive /\ j \notin DOMAIN outputRoot

\* The JSONL of a log whose three rows were committed and ledgered by an
\* earlier run has been written again, this time with one object only; the
\* loop found the entry and is about to archive the file, without a
\* persist_records call.
C32_Witness ==
    /\ pc = "archive_jsonl"
    /\ cur = output_path_of(LogA)
    /\ is_jsonl_already_persisted(persisted_jsonl_files, cur)
    /\ persisted_jsonl_files[cur].rows_inserted = 3
    /\ Len(outputRoot[cur]) = 1
    /\ h.persistOutcome = "none"

\* The log file a JSONL path of the output root was written from.
SourceLogOf(jsonl_path) == CHOOSE p \in Logs : output_path_of(p) = jsonl_path

\* C33: whenever the persist stage has read a JSONL of the output root and
\* goes on to persist_records or mark_jsonl_persisted, the file holds all
\* the objects of its source log and the source log is in the log archive,
\* no longer in the input root.
C33_PersistedJsonlIsComplete ==
    pc \in {"persist", "commit", "mark"} =>
        /\ outputRoot[cur] = ExpectedObjects[SourceLogOf(cur)]
        /\ SourceLogOf(cur) \in logArchive
        /\ SourceLogOf(cur) \notin inputRoot

\* The number of committed rows the store holds for a server and a source file.
StoredRows(server_name, source_file) ==
    SumOver(store, {r \in DOMAIN store : /\ r.server_name = server_name
                                          /\ r.source_file = source_file})

\* C34: a PersistedJsonl entry with rows_inserted = n exists only when a
\* persist_records call for that JSONL has returned n: it committed exactly n
\* fact rows (n > 0), or the JSONL had no row to insert and n = 0. While
\* persist_records is running or has raised, the JSONL has no entry.
C34_LedgerFollowsCommit ==
    /\ \A j \in DOMAIN persisted_jsonl_files :
           LET n == persisted_jsonl_files[j].rows_inserted
           IN /\ j \in DOMAIN h.committed
              /\ h.committed[j].rows = n
              /\ h.committed[j].commit \/ n = 0
              /\ StoredRows(persisted_jsonl_files[j].server_name,
                            persisted_jsonl_files[j].source_file) >= n
    /\ pc \in {"persist", "commit", "rollback"} => cur \notin DOMAIN persisted_jsonl_files

\* persist_records has committed the three rows of a JSONL and
\* mark_jsonl_persisted has recorded rows_inserted = 3 for it.
C34_Witness ==
    /\ pc = "archive_jsonl"
    /\ cur = output_path_of(LogA)
    /\ cur \in DOMAIN persisted_jsonl_files
    /\ persisted_jsonl_files[cur].rows_inserted = 3
    /\ h.committed[cur] = [rows |-> 3, commit |-> TRUE]
    /\ StoredRows("s1", LogA.name) = 3

\* C35: persist_all_jsonl_files returns (files, rows): rows is the number of
\* fact rows committed during the call and files the number of JSONL files
\* the call has moved to the JSONL archive, also when mark_jsonl_persisted or
\* archive_jsonl_file failed after a commit.
C35_ReturnedCounts ==
    pc = "summary" =>
        /\ counts.total_rows_inserted = SumOver(store, DOMAIN store) - h.rows0
        /\ counts.processed_jsonl_files = Cardinality(h.movedJsonl)
        /\ h.movedJsonl \subseteq jsonlArchive

\* The call has committed the three rows of a JSONL, then archive_jsonl_file
\* raised: it returns (0, 3) and the file is still in the output root.
C35_Witness ==
    /\ pc = "summary"
    /\ counts.total_rows_inserted = 3
    /\ counts.processed_jsonl_files = 0
    /\ output_path_of(LogA) \in DOMAIN outputRoot
    /\ output_path_of(LogA) \notin jsonlArchive
    /\ StoredRows("s1", LogA.name) = 3

\* C36: for the JSONL process_log_file wrote for a log named F below
\* <input root>/<server>/, the persist stage passes source_file = F and
\* server_name = <server> to persist_records and mark_jsonl_persisted, for
\* every name F that ends in .log.
C36_SourceFileIsLogName ==
    pc = "persisted" =>
        /\ h.args[1] = [server_name |-> h.log.server, source_file |-> h.log.name]
        /\ \A r \in DOMAIN store :
               r.server_name = h.log.server /\ r.source_file = h.log.name
        /\ \A j \in DOMAIN persisted_jsonl_files :
               /\ persisted_jsonl_files[j].server_name = h.log.server
               /\ persisted_jsonl_files[j].source_file = h.log.name

\* An iteration moves the cursor by 2 when its token is a finger token inside
\* a fingerprint group and the next token is an nbpk token, by 1 otherwise.
CursorStep ==
    (pc = "loop" /\ pc' = "loop") =>
        LET i == h.s.i
            token == h.line[i]
            consumes == /\ token.eq
                        /\ token.key \in DOMAIN finger_keys
                        /\ HasCurrentFp(h.s)
                        /\ i + 1 <= Len(h.line)
                        /\ h.line[i + 1].eq
                        /\ h.line[i + 1].key = "nbpk"
        IN h'.s.i = i + (IF consumes THEN 2 ELSE 1)

\* C37: parse_line terminates on every finite token sequence: each iteration
\* of its loop moves the cursor forward by exactly 1, or by exactly 2 when a
\* finger token consumes the nbpk token that follows it, so that no other
\* token is skipped, and the loop ends with the cursor just past the tokens.
C37_ParseLineTerminates ==
    /\ [][CursorStep]_vars
    /\ [](pc = "returned" => h.s.i = Len(h.line) + 1)
    /\ <>(pc = "returned")

\* parse_line has returned for a line in which a finger token consumed its
\* nbpk token: the last iteration moved the cursor from 2 to 4.
C37_Witness ==
    /\ pc = "returned"
    /\ h.line = <<Tok("FingerprintSampleId", "1"), Tok("RightThumb", "84"), Tok("nbpk", "9")>>
    /\ h.before = 2
    /\ h.s.i = 4
    /\ h.s = ParseLoop(ParseInit, h.line)

====
